---------------------------- MODULE Spec2Model ----------------------------
(***************************************************************************)
(* The asynchronous message pipeline of the chatbot: the message queue     *)
(* (queueService.js), the job handler (MessageController), the             *)
(* conversation service (processMessage, sendResponse,                     *)
(* getCurrentConversation), the document store it reads and writes, and    *)
(* the webhook ingress (webhookController.js).                              *)
(*                                                                         *)
(* Every await of the JavaScript code is a point where another worker may  *)
(* run, so every await-to-await segment of a handler is one action.        *)
(***************************************************************************)
EXTENDS Integers, Sequences, FiniteSets, TLC

VARIABLES
    today,          \* the calendar day new Date() falls in
    customers,      \* the Customer collection: a sequence of phone numbers
    conversations,  \* the Conversation collection: a sequence of documents
    jobs,           \* the jobs of messageQueue, by job id
    run,            \* per job: the state of the handler call of its current attempt
    env,            \* process.env: NODE_ENV, STRICT_VALIDATION, TWILIO_AUTH_TOKEN
    requests,       \* per handled webhook request: the response and its callback
    invocation      \* a call of a service method on its own: arguments, position, result

vars == <<today, customers, conversations, jobs, run, env, requests, invocation>>

---------------------------------------------------------------------------
(* Bounds of the model *)

\* jobs enqueued in the pipeline specification
MaxJobs == 1
\* jobs enqueued in the session specification (workers that may race)
MaxRacers == 2
\* calendar days the clock passes through
MaxDay == 2
\* stalls of one job in the stall specification
MaxStalls == 1
\* jobs enqueued in the stall specification
MaxStallJobs == 1
\* webhook requests handled in the ingress specification
MaxRequests == 1
\* the jobs of one kind that wait or run at a time
MaxBacklog == 11
\* the jobs added to one queue in the retention specification
MaxFinished == 2
\* the words of a message body
MaxWords == 2
\* the calls of the offline classifier in a run
MaxCalls == 2
\* the messages of one webhook event
MaxEventMessages == 3

\* no service method is called on its own
NoCall == [fn |-> "none"]

\* a string is a sequence of parts
Customers == {<<"+254700000001">>}
Messages == {<<"hello">>}

---------------------------------------------------------------------------
(* Program constants *)

\* queueService.js:80  attempts: 3
DefaultAttempts == 3
\* queueService.js:83  delay: 2000
DefaultBackoffDelay == 2000
\* queueService.js:38  process('process_message', 10, ...)
ProcessMessageConcurrency == 10

\* conversationService.js:60-63, the generic apology of processMessage
fallbackResponse ==
    [type |-> "text", text |-> <<"apology">>, imageUrl |-> FALSE, buttons |-> FALSE]

\* the response types the flow handlers return (conversationService.js:132,
\* 154, 171, 318) and sendResponse switches on (conversationService.js:509-547)
ResponseTypes == {"text", "interactive_buttons", "interactive_list", "image_with_text"}

---------------------------------------------------------------------------
(* Helpers *)

Range(s) == {s[i] : i \in 1..Len(s)}

RECURSIVE Pow2(_)
Pow2(n) == IF n = 0 THEN 1 ELSE 2 * Pow2(n - 1)

Min(S) == CHOOSE x \in S : \A y \in S : x <= y

---------------------------------------------------------------------------
(* The queue: queueService.js on top of the queue library *)

\* the default options with one attempt fewer
defaultOptionsTwoAttempts ==
    [attempts |-> DefaultAttempts - 1,
     backoff  |-> [type |-> "exponential", delay |-> DefaultBackoffDelay]]

\* queueService.js:79-85
defaultOptions ==
    [attempts |-> DefaultAttempts,
     backoff  |-> [type |-> "exponential", delay |-> DefaultBackoffDelay]]

\* { ...defaultOptions, ...options } (queueService.js:87-90): a key of options
\* overrides the default one
MergeOptions(defaults, options) ==
    [k \in DOMAIN defaults \cup DOMAIN options |->
        IF k \in DOMAIN options THEN options[k] ELSE defaults[k]]

\* the state of a handler call that has not started or is over
IdleRun ==
    [pc |-> "idle", phase |-> "try", isNew |-> FALSE, conv |-> 0, sid |-> <<>>,
     response |-> [type |-> "none", text |-> <<>>,
                   imageUrl |-> FALSE, buttons |-> FALSE],
     k |-> 1, wire |-> <<>>, stepFailed |-> FALSE, events |-> <<>>,
     context |-> <<>>, steps |-> <<>>]

\* queueService.js:77-98 addToQueue: the job enters the queue waiting, with
\* the default options overridden by the caller's
NewJob(jobType, data, options) ==
    [name |-> jobType, data |-> data,
     opts |-> MergeOptions(defaultOptions, options),
     state |-> "waiting", attemptsMade |-> 0, delays |-> <<>>,
     stalledCount |-> 0, calls |-> 0]

addToQueue(jobType, data, options) ==
    /\ jobs' = Append(jobs, NewJob(jobType, data, options))
    /\ run' = Append(run, IdleRun)

\* admin.js:290-305 MessageController.processIncomingMessage
processIncomingMessage(customerId, message, messageType) ==
    /\ addToQueue("process_message",
          [customerId |-> customerId, message |-> message,
           messageType |-> messageType], <<>>)
    /\ UNCHANGED <<today, customers, conversations, env, requests, invocation>>

ActiveJobs == {j \in 1..Len(jobs) : jobs[j].state = "active"}

\* The delay before the retry that follows the n-th failed attempt: the base
\* delay, doubled with each attempt.
BackoffDelay(backoff, n) ==
    IF backoff.type = "exponential"
    THEN backoff.delay * Pow2(n - 1)
    ELSE backoff.delay

\* a pool that takes a job of a customer only when no job of that customer
\* is active
ClaimSerializesCustomer(j) ==
    /\ jobs[j].state = "waiting"
    /\ jobs[j].name = "process_message"
    /\ Cardinality(ActiveJobs) < ProcessMessageConcurrency
    /\ \A i \in ActiveJobs : jobs[i].data.customerId # jobs[j].data.customerId
    /\ jobs' = [jobs EXCEPT ![j].state = "active", ![j].calls = @ + 1]
    /\ run' = [run EXCEPT ![j] = [IdleRun EXCEPT !.pc = "received"]]
    /\ UNCHANGED <<today, customers, conversations, env, requests, invocation>>

\* A worker of the process_message pool takes a waiting job and calls the
\* processor (queueService.js:38-41), which calls processQueuedMessage.
Claim(j) ==
    /\ jobs[j].state = "waiting"
    /\ jobs[j].name = "process_message"
    /\ Cardinality(ActiveJobs) < ProcessMessageConcurrency
    /\ jobs' = [jobs EXCEPT ![j].state = "active", ![j].calls = @ + 1]
    /\ run' = [run EXCEPT ![j] = [IdleRun EXCEPT !.pc = "received"]]
    /\ UNCHANGED <<today, customers, conversations, env, requests, invocation>>

\* The processor's promise resolved: the job is completed.  The handler
\* call is over, and so is its local state.
Complete(j) ==
    /\ jobs[j].state = "active"
    /\ run[j].pc = "returned"
    /\ jobs' = [jobs EXCEPT ![j].state = "completed"]
    /\ run' = [run EXCEPT ![j] = IdleRun]
    /\ UNCHANGED <<today, customers, conversations, env, requests, invocation>>

\* The processor's promise rejected: the attempt is counted; the job is
\* delayed for a retry while attempts are left and failed otherwise.
Fail(j) ==
    /\ jobs[j].state = "active"
    /\ run[j].pc = "thrown"
    /\ LET n == jobs[j].attemptsMade + 1 IN
          jobs' = IF n < jobs[j].opts.attempts
                  THEN [jobs EXCEPT ![j].attemptsMade = n,
                                    ![j].state = "delayed",
                                    ![j].delays = Append(@, BackoffDelay(jobs[j].opts.backoff, n))]
                  ELSE [jobs EXCEPT ![j].attemptsMade = n,
                                    ![j].state = "failed"]
    /\ run' = [run EXCEPT ![j] = IdleRun]
    /\ UNCHANGED <<today, customers, conversations, env, requests, invocation>>

\* The backoff delay of a delayed job has passed.
Promote(j) ==
    /\ jobs[j].state = "delayed"
    /\ jobs' = [jobs EXCEPT ![j].state = "waiting"]
    /\ UNCHANGED <<today, customers, conversations, run, env, requests, invocation>>

\* a 'stalled' handler that gives the job up
stalledHandlerDrops(q, j) == [q EXCEPT ![j].state = "failed"]

\* queueService.js:66-68: the 'stalled' handler of messageQueue logs the job
\* id; the queue is left as it is
stalledHandler(q, j) == q

\* The lease of an active job ran out without the worker acknowledging it
\* (the worker crashed or hangs): the job is returned to waiting for
\* re-delivery and 'stalled' is emitted.  The handler call it interrupts is
\* gone.
Stall(j) ==
    /\ jobs[j].state = "active"
    /\ jobs[j].stalledCount < MaxStalls
    /\ jobs' = stalledHandler(
                  [jobs EXCEPT ![j].state = "waiting", ![j].stalledCount = @ + 1], j)
    /\ run' = [run EXCEPT ![j] = IdleRun]
    /\ UNCHANGED <<today, customers, conversations, env, requests, invocation>>

---------------------------------------------------------------------------
(* The job handler: MessageController.processQueuedMessage and             *)
(* ConversationService.processMessage                                      *)

Active(j) == j \in 1..Len(jobs) /\ jobs[j].state = "active"

CustomerOf(j) == jobs[j].data.customerId

\* a catch block that passes the error on without sending the apology
CatchRethrows(r) == [r EXCEPT !.stepFailed = TRUE, !.pc = "trackError"]

\* the catch block of processMessage (conversationService.js:58-64): the
\* error is logged and sendResponse is called with the generic apology
Catch(r) ==
    [r EXCEPT !.phase = "catch", !.response = fallbackResponse,
              !.k = 1, !.pc = "send", !.stepFailed = TRUE]

\* admin.js:314-319: trackEvent('message_received'), which never throws
\* (part_002:16-49 catches everything)
TrackReceived(j) ==
    /\ Active(j) /\ run[j].pc = "received"
    /\ run' = [run EXCEPT ![j].events = Append(@, "message_received"),
                          ![j].pc = "custFind"]
    /\ UNCHANGED <<today, customers, conversations, jobs, env, requests, invocation>>

\* conversationService.js:560  Customer.findOne({ phoneNumber })
CustomerFind(j) ==
    /\ Active(j) /\ run[j].pc = "custFind"
    /\ run' = [run EXCEPT ![j].isNew = CustomerOf(j) \notin Range(customers),
                          ![j].pc = "custSave"]
    /\ UNCHANGED <<today, customers, conversations, jobs, env, requests, invocation>>

\* conversationService.js:562-574  customer.save(): a new document is
\* inserted, and the unique index on phoneNumber (Customer.js:8-13) rejects
\* a second document of the same number; an old one has lastActive updated
CustomerSave(j) ==
    /\ Active(j) /\ run[j].pc = "custSave"
    /\ IF run[j].isNew /\ CustomerOf(j) \in Range(customers)
       THEN /\ run' = [run EXCEPT ![j] = Catch(@)]
            /\ UNCHANGED customers
       ELSE /\ customers' = IF run[j].isNew
                            THEN Append(customers, CustomerOf(j))
                            ELSE customers
            /\ run' = [run EXCEPT ![j].pc = "convFind"]
    /\ UNCHANGED <<today, conversations, jobs, env, requests, invocation>>

\* conversationService.js:578  `session_${customerId}_${date}`
SessionId(customerId, day) == <<"session", customerId, day>>

\* the open conversations of the customer with that session id
OpenMatches(customerId, sessionId) ==
    {i \in 1..Len(conversations) :
        /\ conversations[i].customerId = customerId
        /\ conversations[i].sessionId = sessionId
        /\ ~conversations[i].endTime}

\* conversationService.js:577-584 getCurrentConversation up to the result
\* of Conversation.findOne({ customerId, sessionId, endTime: {$exists: false} })
ConversationFind(j) ==
    /\ Active(j) /\ run[j].pc = "convFind"
    /\ LET sid == SessionId(CustomerOf(j), today)
           m   == OpenMatches(CustomerOf(j), sid)
       IN run' = [run EXCEPT ![j].sid = sid,
                             ![j].conv = IF m = {} THEN 0 ELSE Min(m),
                             ![j].context = IF m = {} THEN <<>>
                                            ELSE conversations[Min(m)].context,
                             ![j].steps = IF m = {} THEN @
                                          ELSE Append(@, "session"),
                             ![j].pc = IF m = {} THEN "convSave" ELSE "nlp"]
    /\ UNCHANGED <<today, customers, conversations, jobs, env, requests, invocation>>

\* conversationService.js:587-593 new Conversation({...})
NewConversation(customerId, sessionId) ==
    [customerId |-> customerId, sessionId |-> sessionId,
     currentFlow |-> "welcome", endTime |-> FALSE,
     context |-> <<>>, messages |-> <<>>, messageCount |-> 0]

\* conversationService.js:586-597: no conversation was found, a new one is
\* saved; no index of the schema is unique (part_004:47-49)
ConversationSave(j) ==
    /\ Active(j) /\ run[j].pc = "convSave"
    /\ conversations' = Append(conversations,
          NewConversation(CustomerOf(j), run[j].sid))
    /\ run' = [run EXCEPT ![j].conv = Len(conversations) + 1,
                          ![j].context = <<>>,
                          ![j].steps = Append(@, "session"),
                          ![j].pc = "nlp"]
    /\ UNCHANGED <<today, customers, jobs, env, requests, invocation>>

\* a pipeline that goes from the classifier straight to the flow handler
DetectIntentSkipsLog(j) ==
    /\ Active(j) /\ run[j].pc = "nlp"
    /\ run' = [run EXCEPT ![j].steps = Append(@, "classify"), ![j].pc = "flow"]
    /\ UNCHANGED <<today, customers, conversations, jobs, env, requests, invocation>>

\* conversationService.js:36  nlpService.detectIntent
DetectIntent(j) ==
    /\ Active(j) /\ run[j].pc = "nlp"
    /\ run' = [run EXCEPT ![j].steps = Append(@, "classify"), ![j].pc = "logIn"]
    /\ UNCHANGED <<today, customers, conversations, jobs, env, requests, invocation>>

\* a log that counts the messages of the customer only
logMessageCountsIncoming(conversationId, direction, content) ==
    [conversations EXCEPT
        ![conversationId].messages =
            Append(@, [direction |-> direction, content |-> content]),
        ![conversationId].messageCount =
            IF direction = "incoming" THEN @ + 1 ELSE @]

\* conversationService.js:600-618 logMessage: one findByIdAndUpdate with
\* $push of the message onto messages of the conversation and $inc of its
\* messageCount
logMessage(conversationId, direction, content) ==
    [conversations EXCEPT
        ![conversationId].messages =
            Append(@, [direction |-> direction, content |-> content]),
        ![conversationId].messageCount = @ + 1]

\* conversationService.js:39  logMessage(..., 'incoming', ...)
LogIncoming(j) ==
    /\ Active(j) /\ run[j].pc = "logIn"
    /\ conversations' = logMessage(run[j].conv, "incoming", jobs[j].data.message)
    /\ run' = [run EXCEPT ![j].steps = Append(@, "logIncoming"), ![j].pc = "flow"]
    /\ UNCHANGED <<today, customers, jobs, env, requests, invocation>>

\* the context a flow handler returns with a response of that type: the
\* welcome buttons (conversationService.js:134), the list of search results
\* (257), the product details (320-324) and the text of a product that was
\* not found (276)
HandlerContext(type) ==
    CASE type = "interactive_buttons" -> [currentFlow |-> "welcome"]
      [] type = "interactive_list" ->
            [currentFlow |-> "product_details", searchQuery |-> "phone"]
      [] type = "image_with_text" ->
            [currentFlow |-> "product_details", selectedProduct |-> "p1",
             productName |-> "Phone"]
      [] OTHER -> [currentFlow |-> "browse_catalog"]

\* the response of a flow handler, by its type: buttons accompany the
\* button responses and the product details (conversationService.js:310-330)
HandlerResponse(type) ==
    [type |-> type, text |-> <<"reply">>,
     imageUrl |-> (type = "image_with_text"),
     buttons |-> (type \in {"interactive_buttons", "image_with_text"}),
     context |-> HandlerContext(type)]

\* conversationService.js:42-45  determineFlow and the flow handler
FlowHandler(j) ==
    /\ Active(j) /\ run[j].pc = "flow"
    /\ \E type \in ResponseTypes :
          run' = [run EXCEPT ![j].response = HandlerResponse(type),
                             ![j].steps = Append(@, "stateMachine"),
                             ![j].pc = "ctx"]
    /\ UNCHANGED <<today, customers, conversations, jobs, env, requests, invocation>>

\* an update that merges the new context into the stored one
updateConversationContextMerges(conversationId, newContext) ==
    [conversations EXCEPT ![conversationId].context =
        [key \in DOMAIN @ \cup DOMAIN newContext |->
            IF key \in DOMAIN newContext THEN newContext[key] ELSE @[key]]]

\* conversationService.js:620-627 updateConversationContext:
\* $set: { context: newContext }
updateConversationContext(conversationId, newContext) ==
    [conversations EXCEPT ![conversationId].context = newContext]

\* conversationService.js:48
\* updateConversationContext(conversation._id, response.context || {})
UpdateContext(j) ==
    /\ Active(j) /\ run[j].pc = "ctx"
    /\ conversations' = updateConversationContext(run[j].conv,
          IF "context" \in DOMAIN run[j].response
          THEN run[j].response.context ELSE <<>>)
    /\ run' = [run EXCEPT ![j].steps = Append(@, "updateContext"), ![j].pc = "logOut"]
    /\ UNCHANGED <<today, customers, jobs, env, requests, invocation>>

\* the calls of the transport adapter that the try block of sendResponse
\* makes for a response (conversationService.js:509-547)
Calls(response) ==
    CASE response.type = "text" -> <<"sendTextMessage">>
      [] response.type = "interactive_buttons" -> <<"sendInteractiveButtons">>
      [] response.type = "interactive_list" -> <<"sendInteractiveList">>
      [] response.type = "image_with_text" ->
            (IF response.imageUrl THEN <<"sendImage">> ELSE <<>>)
            \o (IF response.buttons THEN <<"sendInteractiveButtons">> ELSE <<>>)
      [] OTHER -> <<"sendTextMessage">>

\* conversationService.js:51-54  logMessage(..., 'outgoing', ...), then
\* sendResponse is entered
LogOutgoing(j) ==
    /\ Active(j) /\ run[j].pc = "logOut"
    /\ conversations' = logMessage(run[j].conv, "outgoing", run[j].response.text)
    /\ run' = [run EXCEPT ![j].k = 1,
                          ![j].steps = Append(@, "logOutgoing"),
                          ![j].pc = IF Calls(run[j].response) = <<>>
                                    THEN "trackSent" ELSE "send"]
    /\ UNCHANGED <<today, customers, jobs, env, requests, invocation>>

\* the steps of the try block of processMessage that await a collaborator
FailableSteps ==
    {"custFind", "custSave", "convFind", "convSave", "nlp", "logIn", "flow",
     "ctx", "logOut"}

\* an awaited call of the try block of processMessage rejects
\* (conversationService.js:28-58): control passes to the catch block
StepFails(j) ==
    /\ Active(j) /\ run[j].pc \in FailableSteps
    /\ run' = [run EXCEPT ![j] = Catch(@)]
    /\ UNCHANGED <<today, customers, conversations, jobs, env, requests, invocation>>

\* a rejection of sendResponse that always enters the catch block again
SendResponseRetries(r) == Catch(r)

\* what follows a rejection of sendResponse: in the try block of
\* processMessage the catch block runs (conversationService.js:58-64); in the
\* catch block processMessage itself rejects, and the catch block of
\* processQueuedMessage tracks the error (admin.js:339-347)
SendResponseThrows(r) ==
    IF r.phase = "try" THEN Catch(r) ELSE [r EXCEPT !.pc = "trackError"]

\* what follows the return of sendResponse: processMessage returns the
\* response or the apology (conversationService.js:56, 65) and
\* processQueuedMessage tracks message_sent (admin.js:329)
SendResponseReturns(r) == [r EXCEPT !.pc = "trackSent"]

\* conversationService.js:553, the prefix of the plain-text re-send
TroubleText == <<"trouble">>

\* a message text is a sequence of parts; + is concatenation
WireCall(r, call, text, ok) ==
    Append(r.wire, [call |-> call, text |-> text, phase |-> r.phase, ok |-> ok])

\* conversationService.js:508-547: one call of the transport adapter in the
\* try block of sendResponse; ok is whether the adapter delivered
Send(j, ok) ==
    /\ Active(j) /\ run[j].pc = "send"
    /\ LET r == run[j]
           c == Calls(r.response)
           sent == [r EXCEPT !.wire = WireCall(r, c[r.k], r.response.text, ok)]
       IN run' = [run EXCEPT ![j] =
                    IF ~ok THEN [sent EXCEPT !.pc = "resend"]
                    ELSE IF r.k < Len(c) THEN [sent EXCEPT !.k = r.k + 1]
                    ELSE SendResponseReturns(sent)]
    /\ UNCHANGED <<today, customers, conversations, jobs, env, requests, invocation>>

\* conversationService.js:548-555: the catch block of sendResponse sends the
\* text once more, as a plain text message
Resend(j, ok) ==
    /\ Active(j) /\ run[j].pc = "resend"
    /\ LET r == run[j]
           sent == [r EXCEPT !.wire =
                      WireCall(r, "sendTextMessage", TroubleText \o r.response.text, ok)]
       IN run' = [run EXCEPT ![j] =
                    IF ok THEN SendResponseReturns(sent)
                    ELSE SendResponseThrows(sent)]
    /\ UNCHANGED <<today, customers, conversations, jobs, env, requests, invocation>>

\* admin.js:328-337: message_sent is tracked and the handler returns
TrackSent(j) ==
    /\ Active(j) /\ run[j].pc = "trackSent"
    /\ run' = [run EXCEPT ![j].events = Append(@, "message_sent"),
                          ![j].pc = "returned"]
    /\ UNCHANGED <<today, customers, conversations, jobs, env, requests, invocation>>

\* admin.js:339-350: message_error is tracked and the error is thrown again
TrackError(j) ==
    /\ Active(j) /\ run[j].pc = "trackError"
    /\ run' = [run EXCEPT ![j].events = Append(@, "message_error"),
                          ![j].pc = "thrown"]
    /\ UNCHANGED <<today, customers, conversations, jobs, env, requests, invocation>>

\* midnight passes: new Date() falls in the next calendar day
Tick ==
    /\ today < MaxDay
    /\ today' = today + 1
    /\ UNCHANGED <<customers, conversations, jobs, run, env, requests, invocation>>

---------------------------------------------------------------------------
(* The webhook ingress: WebhookController.handleWebhook                    *)

\* the values undefined and null of the program
Undefined == "undefined"
Null == "null"

\* Texts are sequences of words.  String.prototype.toLowerCase on the
\* words of a text
ToLowerCase(text) ==
    [i \in 1..Len(text) |->
        CASE text[i] = "Hello" -> "hello"
          [] text[i] = "PHONE" -> "phone"
          [] text[i] = "HELP" -> "help"
          [] text[i] = "Received " -> "received "
          [] OTHER -> text[i]]

\* String.prototype.trim: the white space at the two ends is dropped
RECURSIVE Trim(_)
Trim(text) ==
    IF Len(text) = 0 THEN text
    ELSE IF Head(text) = " " THEN Trim(Tail(text))
    ELSE IF text[Len(text)] = " " THEN Trim(SubSeq(text, 1, Len(text) - 1))
    ELSE text

\* the keywords that are proper substrings of a word of the texts
KeywordsWithin(word) ==
    CASE word = "this" -> {"hi"}
      [] word = "smartphone" -> {"phone"}
      [] word = "iphone" -> {"phone"}
      [] word = "headphones" -> {"phone"}
      [] word = "smartwatch" -> {"watch"}
      [] word = "products" -> {"product"}
      [] word = "helpful" -> {"help"}
      [] word = "sometimes" -> {"time"}
      [] OTHER -> {}

\* String.prototype.includes: the keyword is a substring of the text, that
\* is, a word of the text or a substring of one of its words (no keyword
\* has a space in it)
Includes(text, keyword) ==
    \E i \in 1..Len(text) : keyword = text[i] \/ keyword \in KeywordsWithin(text[i])


NoValue == <<>>

\* From.replace('whatsapp:', '') (webhookController.js:68): a string is a
\* sequence of parts, and the first part equal to the prefix is removed
StripPrefix(from) ==
    IF \E i \in 1..Len(from) : from[i] = "whatsapp:"
    THEN LET i == Min({k \in 1..Len(from) : from[k] = "whatsapp:"})
         IN SubSeq(from, 1, i - 1) \o SubSeq(from, i + 1, Len(from))
    ELSE from

\* webhookController.js:265-292 validateTwilioSignature: false when the
\* header, the webhook URL or the auth token is missing or the validation
\* throws, and the verdict of twilio.validateRequest otherwise
validateTwilioSignature(req) ==
    IF req.signature = "missing" \/ ~env.TWILIO_AUTH_TOKEN
    THEN FALSE
    ELSE req.signature = "valid"

\* a handler that honours the signature check in production only when
\* STRICT_VALIDATION is set
ForbiddenWhenStrict(e, req) ==
    e.NODE_ENV = "production" /\ e.STRICT_VALIDATION
        /\ ~validateTwilioSignature(req)

\* webhookController.js:47-58: the only rejection is in production; in
\* development with STRICT_VALIDATION the verdict is logged and ignored, and
\* with any other NODE_ENV the signature is not looked at
Forbidden(e, req) ==
    e.NODE_ENV = "production" /\ ~validateTwilioSignature(req)

\* a handler that skips a request only when it names no media type either
NoContentByType(req) ==
    req.Body = "" /\ req.MediaUrl0 = NoValue /\ req.MediaContentType0 = NoValue

\* webhookController.js:62  !Body && !MediaUrl0
NoContent(req) == req.Body = "" /\ req.MediaUrl0 = NoValue

\* webhookController.js:69-76: the message type and text of the message
MessageTypeOf(req) ==
    IF req.MediaUrl0 = NoValue THEN "text"
    ELSE IF req.MediaContentType0 # NoValue /\ req.MediaContentType0[1] = "image/"
         THEN "image" ELSE "document"

MessageOf(req) ==
    IF req.MediaUrl0 # NoValue /\ req.Body = ""
    THEN <<"Received ", MessageTypeOf(req)>>
    ELSE <<req.Body>>

NoCallback == [pc |-> "none", wire |-> <<>>]

\* the response and the callback of a request that is answered at once
Answered(req, status) ==
    [req |-> req, status |-> status, customerId |-> NoValue,
     message |-> NoValue, messageType |-> "none",
     ackedAt |-> "none", cb |-> NoCallback]

\* a handler that awaits the processing of the message and answers with
\* its outcome
handleWebhookAwaits(req) ==
    /\ \E ok \in BOOLEAN :
          requests' = Append(requests,
              IF Forbidden(env, req) THEN Answered(req, 403)
              ELSE IF NoContent(req) THEN Answered(req, 200)
              ELSE IF req.From = NoValue THEN Answered(req, 500)
              ELSE [Answered(req, IF ok THEN 200 ELSE 500) EXCEPT
                      !.customerId = StripPrefix(req.From),
                      !.message = MessageOf(req),
                      !.messageType = MessageTypeOf(req),
                      !.ackedAt = IF ok THEN "done" ELSE "rejected",
                      !.cb = [pc |-> IF ok THEN "done" ELSE "rejected",
                              wire |-> <<[text |-> <<"auto">>, ok |-> ok]>>]])
    /\ UNCHANGED <<today, customers, conversations, jobs, run, env, invocation>>

\* webhookController.js:43-112 handleWebhook: the request is rejected,
\* skipped, or its processing is scheduled with setImmediate and 200 is
\* sent at once; an exception of the handler itself is answered with 500
handleWebhook(req) ==
    /\ requests' = Append(requests,
          IF Forbidden(env, req) THEN Answered(req, 403)
          ELSE IF NoContent(req) THEN Answered(req, 200)
          ELSE IF req.From = NoValue THEN Answered(req, 500)
          ELSE [Answered(req, 200) EXCEPT
                  !.customerId = StripPrefix(req.From),
                  !.message = MessageOf(req),
                  !.messageType = MessageTypeOf(req),
                  !.ackedAt = "scheduled",
                  !.cb = [pc |-> "scheduled", wire |-> <<>>]])
    /\ UNCHANGED <<today, customers, conversations, jobs, run, env, invocation>>

\* the replies of generateAutoResponse (webhookController.js:152-249)
WelcomeReply == <<"Hello! Welcome. How can I help you today?">>
AppointmentReply == <<"Your appointment is coming up">>
MenuReply ==
    <<"1 View Products", "2 Book Appointment", "3 Get Support",
      "4 Business Hours", "5 Contact Info">>
ProductsReply == <<"Here are our popular products">>
SupportReply == <<"Support Options">>
HoursReply == <<"Business Hours">>
ContactReply == <<"Contact Information">>
DefaultReply(messageBody) == <<"Thank you for your message!">> \o messageBody

\* an appointment rule that goes by the word alone
IsAppointmentByWord(message) == Includes(message, "appointment")

\* webhookController.js:159
IsAppointment(message) == Includes(message, "appointment") \/ message = <<"2">>

\* webhookController.js:146-250 generateAutoResponse: null for the empty
\* string; else the reply of the first rule that the lower-cased, trimmed
\* message matches
generateAutoResponse(messageBody) ==
    IF messageBody = <<"">> THEN NoValue
    ELSE LET message == Trim(ToLowerCase(messageBody)) IN
    CASE Includes(message, "hello") \/ Includes(message, "hi")
             \/ Includes(message, "hey") ->
            [text |-> WelcomeReply, options |-> Null]
      [] IsAppointment(message) ->
            [text |-> AppointmentReply, options |-> [useTemplate |-> TRUE]]
      [] Includes(message, "help") \/ Includes(message, "menu") ->
            [text |-> MenuReply, options |-> Null]
      [] message = <<"1">> \/ Includes(message, "product") ->
            [text |-> ProductsReply, options |-> Null]
      [] message = <<"3">> \/ Includes(message, "support") ->
            [text |-> SupportReply, options |-> Null]
      [] message = <<"4">> \/ Includes(message, "hours")
             \/ Includes(message, "time") ->
            [text |-> HoursReply, options |-> Null]
      [] message = <<"5">> \/ Includes(message, "contact") ->
            [text |-> ContactReply, options |-> Null]
      [] OTHER -> [text |-> DefaultReply(messageBody), options |-> Null]

\* the words of the message bodies: the keywords of the rules in lower and
\* upper case, words that contain a keyword, the numbers of the menu, a
\* number and a word no rule knows, and white space
AutoWords ==
    {"hello", "Hello", "hi", "hey", "this", "appointment", "help", "HELP",
     "helpful", "menu", "1", "2", "3", "4", "5", "12", "product", "products",
     "support", "hours", "time", "sometimes", "contact", "thanks", " "}

\* the message bodies: the empty string and the texts of up to MaxWords words
AutoMessages ==
    {<<"">>} \cup UNION {[1..n -> AutoWords] : n \in 1..MaxWords}

\* a call of generateAutoResponse
GenerateAutoResponse ==
    /\ invocation.fn = "generateAutoResponse" /\ invocation.pc = "called"
    /\ invocation' = [invocation EXCEPT
                         !.result = generateAutoResponse(invocation.messageBody),
                         !.pc = "returned"]
    /\ UNCHANGED <<today, customers, conversations, jobs, run, env, requests>>

\* webhookController.js:82-97: the callback runs; the automatic reply, or the
\* default one, is sent with WebhookController.sendResponse (114-143), which
\* throws when the provider call fails
AutoRespond(i, ok) ==
    /\ requests[i].cb.pc = "scheduled"
    /\ LET auto == generateAutoResponse(requests[i].message)
           text == IF auto # NoValue THEN auto.text ELSE <<"default">>
       IN requests' = [requests EXCEPT
             ![i].cb.wire = Append(@, [text |-> text, ok |-> ok]),
             ![i].cb.pc = IF ok THEN "done" ELSE "catch"]
    /\ UNCHANGED <<today, customers, conversations, jobs, run, env, invocation>>

\* webhookController.js:98-102: the catch block of the callback sends the
\* error text; when that fails too the callback's promise rejects unhandled
ErrorRespond(i, ok) ==
    /\ requests[i].cb.pc = "catch"
    /\ requests' = [requests EXCEPT
          ![i].cb.wire = Append(@, [text |-> <<"sorry">>, ok |-> ok]),
          ![i].cb.pc = IF ok THEN "done" ELSE "rejected"]
    /\ UNCHANGED <<today, customers, conversations, jobs, run, env, invocation>>

Envs ==
    [NODE_ENV : {"production", "development", "test"},
     STRICT_VALIDATION : BOOLEAN,
     TWILIO_AUTH_TOKEN : BOOLEAN]

Froms == {NoValue} \cup Customers \cup {<<"whatsapp:">> \o c : c \in Customers}

WebhookRequests ==
    [signature : {"missing", "invalid", "valid"},
     From : Froms,
     Body : {"", "hello"},
     MediaUrl0 : {NoValue, <<"url">>},
     MediaContentType0 : {NoValue, <<"image/", "jpeg">>, <<"application/", "pdf">>}]

---------------------------------------------------------------------------
(* ConversationService.determineFlow                                       *)


\* obj.key: undefined when the object has no such key
Get(obj, key) == IF key \in DOMAIN obj THEN obj[key] ELSE Undefined

\* the truth value of a string, undefined or null in a condition
Truthy(v) == v \notin {Undefined, Null, ""}

\* confidences are in hundredths
\* conversationService.js:74  confidence > 0.7
HighConfidence == 70
\* conversationService.js:103  confidence > 0.4
MediumConfidence == 40
\* nlpService.js:130  || 0.5, the confidence of a label without a value
NeutralConfidence == 50

\* a lookup table whose default is the welcome flow
IntentFlowDefaultsToWelcome(intent) ==
    CASE intent \in {"browse_catalog", "show_products"} -> "browse_catalog"
      [] intent \in {"search_product", "find_product"} -> "product_search"
      [] intent \in {"product_details", "more_info"} -> "product_details"
      [] intent \in {"get_recommendations", "suggest_products"} -> "recommendations"
      [] intent \in {"faq", "help"} -> "faq"
      [] intent \in {"contact_support", "human_agent"} -> "support"
      [] OTHER -> "welcome"

\* conversationService.js:75-99, the switch on the intent
IntentFlow(intent) ==
    CASE intent \in {"greeting", "get_started"} -> "welcome"
      [] intent \in {"browse_catalog", "show_products"} -> "browse_catalog"
      [] intent \in {"search_product", "find_product"} -> "product_search"
      [] intent \in {"product_details", "more_info"} -> "product_details"
      [] intent \in {"get_recommendations", "suggest_products"} -> "recommendations"
      [] intent \in {"faq", "help"} -> "faq"
      [] intent \in {"contact_support", "human_agent"} -> "support"
      [] OTHER -> "fallback"

\* a continuation test that asks for more than half confidence
ContinuationAboveHalf(confidence, context) ==
    confidence > 50 /\ Truthy(Get(context, "currentFlow"))

\* conversationService.js:103  confidence > 0.4 && context.currentFlow
Continuation(confidence, context) ==
    confidence > MediumConfidence /\ Truthy(Get(context, "currentFlow"))

\* a selection that looks at the context before the lookup table
determineFlowContextFirst(nlpResult, context) ==
    IF Continuation(nlpResult.confidence, context)
    THEN Get(context, "currentFlow")
    ELSE IF nlpResult.confidence > HighConfidence
         THEN IntentFlow(nlpResult.intent)
         ELSE "fallback"

\* conversationService.js:70-109 determineFlow
determineFlow(nlpResult, context) ==
    IF nlpResult.confidence > HighConfidence
    THEN IntentFlow(nlpResult.intent)
    ELSE IF Continuation(nlpResult.confidence, context)
         THEN Get(context, "currentFlow")
         ELSE "fallback"

\* the keys of this.flows (conversationService.js:14-23)
Flows ==
    {"welcome", "browse_catalog", "product_search", "product_details",
     "recommendations", "faq", "support", "fallback"}

\* the intents the prompt of detectIntentWithGemini lists (nlpService.js:89)
GeminiIntents ==
    {"greeting", "product_search", "browse_catalog", "product_details",
     "get_recommendations", "faq", "contact_support", "fallback"}

\* the intents of the lookup table, those of the prompt of the classifier
\* and an intent neither knows
Intents ==
    {"greeting", "get_started", "browse_catalog", "show_products",
     "search_product", "find_product", "product_details", "more_info",
     "get_recommendations", "suggest_products", "faq", "help",
     "contact_support", "human_agent", "order_status"}
    \cup GeminiIntents

Confidences == {0, 40, 41, NeutralConfidence, 70, 71, 100}

NlpResults == [intent : Intents, confidence : Confidences]

\* contexts: objects with any of the keys the handlers read and write
Contexts ==
    {<<>>}
    \cup {[currentFlow |-> f] : f \in Flows \cup {Null, ""}}
    \cup {[currentFlow |-> f, selectedCategory |-> "phones"] : f \in Flows}
    \cup {[selectedCategory |-> "phones"]}

\* a call of determineFlow and its return
DetermineFlow ==
    /\ invocation.fn = "determineFlow" /\ invocation.pc = "called"
    /\ invocation' = [invocation EXCEPT
          !.flow = determineFlow(invocation.nlpResult, invocation.context),
          !.pc = "returned"]
    /\ UNCHANGED <<today, customers, conversations, jobs, run, env, requests>>

---------------------------------------------------------------------------
(* NLPService.detectIntent                                                 *)

\* a classifier that goes on learning: what it answers depends on the
\* calls it has had
ClassifyLearns(lowerMessage) ==
    IF Len(invocation.log) > 0 /\ lowerMessage = <<"hello">>
    THEN [intent |-> "get_started", confidence |-> 90]
    ELSE [intent |-> "fallback", confidence |-> NeutralConfidence]

\* nlpService.js:128-130: the label the trained classifier gives the
\* lower-cased text and its value, 0.5 when the value is missing or 0
Classify(lowerMessage) ==
    CASE lowerMessage = <<"hello">> -> [intent |-> "greeting", confidence |-> 90]
      [] lowerMessage = <<"phone">> -> [intent |-> "search_product", confidence |-> 60]
      [] OTHER -> [intent |-> "fallback", confidence |-> NeutralConfidence]

\* nlpService.js:158-163, the product keywords in the order of the list
productKeywords ==
    <<"phone", "smartphone", "iphone", "android",
      "laptop", "computer", "pc", "macbook",
      "tablet", "ipad", "headphones", "earbuds",
      "watch", "smartwatch", "camera", "tv">>

\* nlpService.js:171-174
categoryKeywords ==
    <<"electronics", "clothing", "fashion", "books",
      "home", "garden", "sports", "health", "beauty">>

\* the words of the texts that are numbers, and their values
NumberWords == {"1", "2", "3", "4", "5", "12"}
ValueOf(word) ==
    CASE word = "1" -> 1 [] word = "2" -> 2 [] word = "3" -> 3
      [] word = "4" -> 4 [] word = "5" -> 5 [] word = "12" -> 12

\* nlpService.js:183-186: the first number of the text, if any
Price(message) ==
    LET at == {i \in 1..Len(message) : message[i] \in NumberWords}
    IN IF at = {} THEN Null ELSE ValueOf(message[Min(at)])

\* nlpService.js:189-192: the first number that a unit word follows
Quantity(message) ==
    LET at == {i \in 1..(Len(message) - 1) :
                  /\ message[i] \in NumberWords
                  /\ message[i + 1] \in {"piece", "pieces", "item", "items",
                                         "qty", "quantity"}}
    IN IF at = {} THEN Null ELSE ValueOf(message[Min(at)])

\* nlpService.js:149-196 extractEntities: the product and category
\* keywords the text includes, in the order of the keyword lists, the
\* price and the quantity
extractEntities(message) ==
    [products |-> SelectSeq(productKeywords, LAMBDA keyword : Includes(message, keyword)),
     categories |-> SelectSeq(categoryKeywords, LAMBDA keyword : Includes(message, keyword)),
     price |-> Price(message),
     quantity |-> Quantity(message)]

\* the score the sentiment analyzer gives the text, in hundredths
SentimentScore(message) ==
    CASE Includes(message, "hello") -> 50
      [] Includes(message, "help") -> -20
      [] OTHER -> 0

\* nlpService.js:199-209 analyzeSentiment
analyzeSentiment(message) ==
    [score |-> SentimentScore(message),
     sentiment |-> IF SentimentScore(message) > 10 THEN "positive"
                   ELSE IF SentimentScore(message) < -10 THEN "negative"
                   ELSE "neutral"]

\* nlpService.js:124-146 detectIntentWithNatural
detectIntentWithNatural(message) ==
    [intent |-> Classify(ToLowerCase(message)).intent,
     confidence |-> Classify(ToLowerCase(message)).confidence,
     entities |-> extractEntities(ToLowerCase(message)),
     sentiment |-> analyzeSentiment(ToLowerCase(message)),
     originalMessage |-> message,
     source |-> "natural"]

\* the parts of the text of a Gemini response: a JSON object, a Markdown
\* fence, or anything else
JsonPart(analysis) == [kind |-> "json", value |-> analysis]
FencePart == [kind |-> "fence", value |-> <<>>]
ProsePart == [kind |-> "prose", value |-> <<>>]

\* nlpService.js:113  text.replace(/```json\n?|\n?```/g, '').trim()
CleanText(text) ==
    SelectSeq(text, LAMBDA part : part.kind # "fence")

\* JSON.parse (nlpService.js:114) succeeds on a text that is one JSON value
Parses(cleanedText) ==
    Len(cleanedText) = 1 /\ cleanedText[1].kind = "json"

\* nlpService.js:116-120  { ...analysis, originalMessage, source: 'gemini' }
GeminiResult(cleanedText, message) ==
    LET analysis == cleanedText[1].value
    IN [key \in DOMAIN analysis \cup {"originalMessage", "source"} |->
          CASE key = "originalMessage" -> message
            [] key = "source" -> "gemini"
            [] OTHER -> analysis[key]]

\* the analyses Gemini answers with: objects with the four fields the
\* prompt asks for, and objects that lack a field or have a confidence
\* outside 0..1
GeminiAnalyses ==
    {[intent |-> i, confidence |-> c,
      entities |-> [products |-> <<>>],
      sentiment |-> [score |-> 10, sentiment |-> "neutral"]] :
        i \in {"greeting", "search_product", "product_details", "faq",
               "order_status"},
        c \in {30, 60, 71, 90}}
    \cup {[intent |-> "search_product", confidence |-> 90,
           entities |-> [categories |-> <<"electronics">>],
           sentiment |-> [score |-> 10, sentiment |-> "neutral"]],
          [intent |-> "search_product", confidence |-> 150,
           entities |-> [products |-> <<>>],
           sentiment |-> [score |-> 10, sentiment |-> "neutral"]],
          [intent |-> "greeting", confidence |-> 90],
          [confidence |-> 90,
           entities |-> [products |-> <<>>],
           sentiment |-> [score |-> 10, sentiment |-> "neutral"]]}

\* the texts of a Gemini response: the JSON object bare, fenced, inside
\* prose, or no JSON at all
GeminiTexts ==
    UNION {{<<JsonPart(a)>>, <<FencePart, JsonPart(a), FencePart>>,
            <<ProsePart, JsonPart(a)>>} : a \in GeminiAnalyses}
    \cup {<<ProsePart>>, <<>>}

NlpMessages == {<<"hello">>, <<"Hello">>, <<"PHONE">>, <<"help">>, <<"">>}

\* the texts the offline classifier is called with
OfflineMessages ==
    NlpMessages \cup
    {<<"smartphone">>, <<"headphones">>, <<"laptop", "electronics">>,
     <<"2", "items">>, <<"12">>, <<"thanks">>, <<"iphone", "camera">>}

\* nlpService.js:124-146: a call of detectIntentWithNatural on the trained
\* service; the call reads the classifier and writes nothing
CallNatural(message) ==
    /\ invocation.fn = "detectIntentWithNatural"
    /\ Len(invocation.log) < MaxCalls
    /\ invocation' = [invocation EXCEPT
          !.log = Append(@, [message |-> message,
                             result |-> detectIntentWithNatural(message)])]
    /\ UNCHANGED <<today, customers, conversations, jobs, run, env, requests>>

InDetectIntent(pc) == invocation.fn = "detectIntent" /\ invocation.pc = pc

\* nlpService.js:67-69, 108: with Gemini enabled, generateContent is called
\* and awaited
GenerateContent ==
    /\ InDetectIntent("called") /\ invocation.geminiEnabled
    /\ invocation' = [invocation EXCEPT !.pc = "generateContent"]
    /\ UNCHANGED <<today, customers, conversations, jobs, run, env, requests>>

\* nlpService.js:74-75: without Gemini the offline classifier answers
ClassifyOffline ==
    /\ InDetectIntent("called") /\ ~invocation.geminiEnabled
    /\ invocation' = [invocation EXCEPT
          !.result = detectIntentWithNatural(invocation.message),
          !.pc = "returned"]
    /\ UNCHANGED <<today, customers, conversations, jobs, run, env, requests>>

\* nlpService.js:108-120: generateContent resolves with a text; the text is
\* cleaned and parsed, and a text that does not parse raises
GeminiResolves(text) ==
    /\ InDetectIntent("generateContent")
    /\ invocation' =
          IF Parses(CleanText(text))
          THEN [invocation EXCEPT
                  !.result = GeminiResult(CleanText(text), invocation.message),
                  !.pc = "returned"]
          ELSE [invocation EXCEPT !.primaryFailed = "parse", !.pc = "catch"]
    /\ UNCHANGED <<today, customers, conversations, jobs, run, env, requests>>

\* nlpService.js:108-110: generateContent, result.response or
\* response.text() raises (a transport error, a blocked response)
GeminiRejects ==
    /\ InDetectIntent("generateContent")
    /\ invocation' = [invocation EXCEPT !.primaryFailed = "transport", !.pc = "catch"]
    /\ UNCHANGED <<today, customers, conversations, jobs, run, env, requests>>

\* nlpService.js:108: the promise of generateContent never settles; the
\* call is made without a timeout and is not raced against a timer, so
\* nothing resumes detectIntent
GeminiNeverSettles ==
    /\ InDetectIntent("generateContent")
    /\ invocation' = [invocation EXCEPT !.pc = "pending"]
    /\ UNCHANGED <<today, customers, conversations, jobs, run, env, requests>>

\* a catch block that passes the error of the primary path on
FallbackRethrows(inv) == [inv EXCEPT !.pc = "thrown"]

\* nlpService.js:70-73: the catch block of detectIntent returns the result
\* of the offline classifier
Fallback(inv) ==
    [inv EXCEPT !.result = detectIntentWithNatural(inv.message),
                !.pc = "returned"]

CatchGeminiError ==
    /\ InDetectIntent("catch")
    /\ invocation' = Fallback(invocation)
    /\ UNCHANGED <<today, customers, conversations, jobs, run, env, requests>>

---------------------------------------------------------------------------
(* The two queues and their worker slots, by number of jobs                *)

\* queueService.js:18-28: the two queues
messageQueue == "message processing"
analyticsQueue == "analytics processing"
Queues == {messageQueue, analyticsQueue}

\* queueService.js:36-54: the processors and the queue each is registered on
JobKinds == {"process_message", "update_analytics", "generate_daily_report"}

QueueOf(kind) ==
    IF kind = "process_message" THEN messageQueue ELSE analyticsQueue

\* queueService.js:44 process('update_analytics', 5, ...)
UpdateAnalyticsConcurrency == 5
\* queueService.js:50 process('generate_daily_report', ...): no number is
\* given, and the concurrency of a processor defaults to 1
DailyReportConcurrency == 1

Concurrency(kind) ==
    CASE kind = "process_message" -> ProcessMessageConcurrency
      [] kind = "update_analytics" -> UpdateAnalyticsConcurrency
      [] kind = "generate_daily_report" -> DailyReportConcurrency

RECURSIVE Sum(_, _)
Sum(f, S) ==
    IF S = {} THEN 0
    ELSE LET x == CHOOSE y \in S : TRUE IN f[x] + Sum(f, S \ {x})

KindsOf(queue) == {kind \in JobKinds : QueueOf(kind) = queue}

\* Every process() call on a queue starts as many job loops on that queue
\* as its concurrency, and a loop takes the next waiting job of the queue
\* whatever its name and hands it to the processor of that name: the slots
\* of a queue are the sum of the concurrencies registered on it.
Slots(queue) == Sum([kind \in JobKinds |-> Concurrency(kind)], KindsOf(queue))

InPools == invocation.fn = "pools"

ActiveOn(queue) == Sum(invocation.active, KindsOf(queue))

\* queue.add(kind, ...): queueService.js:77-98, 101-113, 116-131
PoolAdd(kind) ==
    /\ InPools
    /\ invocation.waiting[kind] + invocation.active[kind] < MaxBacklog
    /\ invocation' = [invocation EXCEPT !.waiting[kind] = @ + 1]
    /\ UNCHANGED <<today, customers, conversations, jobs, run, env, requests>>

\* a free job loop of the queue takes a waiting job
PoolTake(kind) ==
    /\ InPools
    /\ invocation.waiting[kind] > 0
    /\ ActiveOn(QueueOf(kind)) < Slots(QueueOf(kind))
    /\ invocation' = [invocation EXCEPT !.waiting[kind] = @ - 1,
                                        !.active[kind] = @ + 1]
    /\ UNCHANGED <<today, customers, conversations, jobs, run, env, requests>>

\* the processor's promise settled
PoolFinish(kind) ==
    /\ InPools
    /\ invocation.active[kind] > 0
    /\ invocation' = [invocation EXCEPT !.active[kind] = @ - 1]
    /\ UNCHANGED <<today, customers, conversations, jobs, run, env, requests>>

---------------------------------------------------------------------------
(* The completed and failed jobs a queue keeps; time is counted in days    *)

\* queueService.js:20-23 defaultJobOptions of messageQueue
RemoveOnComplete == 100
RemoveOnFail == 50

\* queueService.js:18-28: analyticsQueue is created without job options
defaultJobOptions(queue) ==
    IF queue = messageQueue
    THEN [removeOnComplete |-> RemoveOnComplete, removeOnFail |-> RemoveOnFail]
    ELSE <<>>

\* removeOnComplete / removeOnFail with a number: the newest jobs up to
\* that number are kept; without the option every job is kept
KeepLast(finished, options, key) ==
    IF key \in DOMAIN options /\ Len(finished) > options[key]
    THEN SubSeq(finished, Len(finished) - options[key] + 1, Len(finished))
    ELSE finished

\* queueService.js:172-176: 24 hours for completed jobs, 7 days for failed
CompletedGraceDays == 1
FailedGraceDays == 7

\* queue.clean(grace, state): the jobs of that state that finished more
\* than grace ago are removed
Clean(finished, grace, now) ==
    SelectSeq(finished, LAMBDA finishedOn : now - finishedOn <= grace)

\* queueService.js:170-183 cleanupJobs
cleanupJobs(q) ==
    [q EXCEPT
       !.completed = [queue \in Queues |->
                         Clean(q.completed[queue], CompletedGraceDays, q.now)],
       !.failed = [queue \in Queues |->
                         Clean(q.failed[queue], FailedGraceDays, q.now)]]

InRetention == invocation.fn = "retention"

Added(queue) ==
    invocation.pending[queue] + Len(invocation.completed[queue])
        + Len(invocation.failed[queue])

\* queue.add
RetentionAdd(queue) ==
    /\ InRetention
    /\ Added(queue) < MaxFinished
    /\ invocation' = [invocation EXCEPT !.pending[queue] = @ + 1]
    /\ UNCHANGED <<today, customers, conversations, jobs, run, env, requests>>

\* a job of the queue completed
RetentionComplete(queue) ==
    /\ InRetention
    /\ invocation.pending[queue] > 0
    /\ invocation' =
          [invocation EXCEPT
             !.pending[queue] = @ - 1,
             !.completed[queue] =
                 KeepLast(Append(@, invocation.now),
                          defaultJobOptions(queue), "removeOnComplete")]
    /\ UNCHANGED <<today, customers, conversations, jobs, run, env, requests>>

\* a job of the queue failed its last attempt
RetentionFail(queue) ==
    /\ InRetention
    /\ invocation.pending[queue] > 0
    /\ invocation' =
          [invocation EXCEPT
             !.pending[queue] = @ - 1,
             !.failed[queue] =
                 KeepLast(Append(@, invocation.now),
                          defaultJobOptions(queue), "removeOnFail")]
    /\ UNCHANGED <<today, customers, conversations, jobs, run, env, requests>>

\* a day passes.  No timer, schedule or caller in the sources runs
\* cleanupJobs, so the passing of time changes nothing else.
DayPasses ==
    /\ InRetention
    /\ invocation.now < MaxDay
    /\ invocation' = [invocation EXCEPT !.now = @ + 1]
    /\ UNCHANGED <<today, customers, conversations, jobs, run, env, requests>>

---------------------------------------------------------------------------
(* The flow handlers and one turn of ConversationService.processMessage    *)

\* the methods of CatalogService (part_003:8-410)
CatalogService ==
    {"searchProducts", "getProductDetails", "getRecommendations",
     "getProductsByCategory", "getPopularProducts", "getRelatedProducts",
     "logSearch", "logProductView", "logRecommendation",
     "updateCustomerPreferences"}

\* products as the catalog returns them (Product.js:7-13: productId, name,
\* description and price are required)
Phone == [productId |-> "p1", name |-> "Phone", price |-> 100, description |-> "a phone"]
Laptop == [productId |-> "p2", name |-> "Laptop", price |-> 900, description |-> "a laptop"]
\* a product with the optional fields (Product.js:14 originalPrice, 26
\* images)
Camera ==
    [productId |-> "p3", name |-> "Camera", price |-> 80, description |-> "a camera",
     originalPrice |-> 100, images |-> <<"camera.jpg">>]

\* what the catalog answers in a turn: the products that match the query,
\* the recommendations for the customer, the products of the selected
\* category, the categories, the popular products and the active products
\* it holds
CatalogAnswers ==
    [searchProducts : {<<>>, <<Phone>>, <<Phone, Laptop>>},
     getRecommendations : {<<>>, <<Laptop>>},
     getProductsByCategory : {<<>>, <<Phone>>},
     getCategories : {<<[name |-> "phones", count |-> 1]>>},
     getPopularProducts : {<<>>, <<Phone>>},
     products : {{Phone}, {Camera}}]

\* the methods one handler calls (conversationService.js:216-222, 347-353,
\* 145-149, 282)
CalledTogether ==
    {{"searchProducts", "getRecommendations"},
     {"getRecommendations", "getPopularProducts"},
     {"getProductsByCategory"},
     {"products"}}

\* the catalogs of a turn: every combination of answers to the calls of one
\* handler, the other answers being those of a catalog with one phone
Catalogs ==
    {catalog \in CatalogAnswers :
        \E called \in CalledTogether :
            \A method \in DOMAIN catalog \ called :
                catalog[method] =
                    CASE method = "searchProducts" -> <<Phone>>
                      [] method = "getRecommendations" -> <<>>
                      [] method = "getProductsByCategory" -> <<Phone>>
                      [] method = "getPopularProducts" -> <<>>
                      [] method = "products" -> {Phone}
                      [] OTHER -> catalog[method]}

\* the number of characters of a word
CharCount(word) ==
    CASE word = "" -> 0
      [] word = "x" -> 1
      [] word = "hello" -> 5
      [] word = "phone" -> 5
      [] word = "xyzzynotreal" -> 12
      [] word = "category_phones" -> 15
      [] word = "hours" -> 5
      [] word = "product_" -> 8
      [] word = "product_p1" -> 10
      [] word = "product_p9" -> 10

\* String.prototype.length of a text: its words and the spaces between them
RECURSIVE Length(_)
Length(text) ==
    IF Len(text) = 0 THEN 0
    ELSE CharCount(Head(text)) + (IF Len(text) > 1 THEN 1 ELSE 0) + Length(Tail(text))

\* the value undefined where the program expects an object: reading a
\* property of it throws a TypeError
UndefinedObject == [typeof |-> "undefined"]

\* a handler call ends in a response or in an exception; calls are the
\* methods of the catalog it called
Replied(response, calls) == [threw |-> FALSE, response |-> response, calls |-> calls]
Thrown(calls) == [threw |-> TRUE, calls |-> calls]

\* a welcome with three buttons
handleWelcomeFlowThreeButtons(customer, nlpResult, context, message) ==
    Replied([text |-> <<"Hello", "Welcome">>,
             type |-> "interactive_buttons",
             buttons |-> <<[id |-> "browse_catalog"],
                           [id |-> "get_recommendations"],
                           [id |-> "search_product"]>>,
             context |-> [currentFlow |-> "welcome"]], <<>>)

\* conversationService.js:112-136 handleWelcomeFlow
handleWelcomeFlow(customer, nlpResult, context, message) ==
    Replied([text |-> <<"Hello", "Welcome">>,
             type |-> "interactive_buttons",
             buttons |-> <<[id |-> "browse_catalog"],
                           [id |-> "get_recommendations"],
                           [id |-> "search_product"],
                           [id |-> "faq"]>>,
             context |-> [currentFlow |-> "welcome"]], <<>>)

\* the rows of a product list (conversationService.js:161-165, 246-250)
ProductRows(products) ==
    [i \in 1..Len(products) |->
        [id |-> <<"product", products[i].productId>>,
         title |-> products[i].name,
         description |-> <<products[i].price, products[i].description>>]]

\* conversationService.js:139-195 handleBrowseFlow.  The first statement
\* calls catalogService.getCategories, and a call of a method the service
\* does not have throws a TypeError.  The message is not read anywhere.
handleBrowseFlow(customer, nlpResult, context, message, catalog) ==
    IF "getCategories" \notin CatalogService
    THEN Thrown(<<>>)
    ELSE IF Truthy(Get(context, "selectedCategory"))
    THEN IF Len(catalog.getProductsByCategory) = 0
         THEN Replied([text |-> <<"Sorry, no products found in", context.selectedCategory>>,
                       type |-> "text",
                       context |-> [currentFlow |-> "browse_catalog",
                                    selectedCategory |-> Null]],
                      <<"getCategories", "getProductsByCategory">>)
         ELSE Replied([text |-> <<"Here are our products", context.selectedCategory>>,
                       type |-> "interactive_list",
                       buttonText |-> "View Products",
                       sections |-> <<[title |-> context.selectedCategory,
                                       rows |-> ProductRows(catalog.getProductsByCategory)]>>,
                       context |-> [currentFlow |-> "product_details",
                                    selectedCategory |-> context.selectedCategory]],
                      <<"getCategories", "getProductsByCategory">>)
    ELSE Replied([text |-> <<"Which category would you like to explore?">>,
                  type |-> "interactive_list",
                  buttonText |-> "Browse Categories",
                  sections |-> <<[title |-> "Product Categories",
                                  rows |-> [i \in 1..Len(catalog.getCategories) |->
                                              [id |-> <<"category", catalog.getCategories[i].name>>,
                                               title |-> catalog.getCategories[i].name]]]>>,
                  context |-> [currentFlow |-> "browse_catalog"]],
                 <<"getCategories">>)

\* String.prototype.startsWith('product_') (conversationService.js:266)
StartsWithProduct(message) ==
    Len(message) > 0 /\ message[1] \in {"product_", "product_p1", "product_p9"}

\* message.replace('product_', '') of a row id (conversationService.js:267)
ReplaceProduct(message) ==
    CASE message[1] = "product_p1" -> "p1"
      [] message[1] = "product_p9" -> "p9"
      [] message[1] = "product_" -> ""

\* part_003:118-132 getProductDetails: the active products with this id;
\* it throws 'Product not found' when there is none
ProductsWithId(catalog, productId) ==
    {product \in catalog.products : product.productId = productId}

\* Math.round((1 - price / originalPrice) * 100) (conversationService.js:291)
Discount(product) ==
    ((product.originalPrice - product.price) * 200 + product.originalPrice)
        \div (2 * product.originalPrice)

\* conversationService.js:288-307 the text of the details
DetailsText(product) ==
    <<product.name, product.price>>
    \o (IF /\ "originalPrice" \in DOMAIN product
            /\ product.originalPrice > product.price
         THEN <<product.originalPrice, Discount(product)>> ELSE <<>>)
    \o <<product.description>>

\* conversationService.js:262-342 handleProductDetailsFlow.  The read of
\* context.selectedProduct (268) is outside the try block: it throws a
\* TypeError when the context is undefined.  What getProductDetails throws is
\* caught (334-341).
handleProductDetailsFlow(customer, nlpResult, context, message, catalog) ==
    IF ~StartsWithProduct(message) /\ context = UndefinedObject
    THEN Thrown(<<>>)
    ELSE LET productId ==
                 IF StartsWithProduct(message) THEN ReplaceProduct(message)
                 ELSE IF Truthy(Get(context, "selectedProduct"))
                      THEN context.selectedProduct
                      ELSE Null
         IN
    IF ~Truthy(productId)
    THEN Replied([text |-> <<"Please select a product to view details.">>,
                  type |-> "text",
                  context |-> [currentFlow |-> "browse_catalog"]], <<>>)
    ELSE IF ProductsWithId(catalog, productId) = {}
    THEN Replied([text |-> <<"Sorry, I couldn't find details for that product.">>,
                  type |-> "text",
                  context |-> [currentFlow |-> "browse_catalog"]],
                 <<"getProductDetails">>)
    ELSE LET product == CHOOSE p \in ProductsWithId(catalog, productId) : TRUE
             buttons == <<[id |-> <<"contact_about", productId>>],
                          [id |-> "get_recommendations"],
                          [id |-> "browse_catalog"]>>
             newContext == [currentFlow |-> "product_details",
                            selectedProduct |-> productId,
                            productName |-> product.name]
         IN IF "images" \in DOMAIN product /\ Len(product.images) > 0
            THEN Replied([text |-> DetailsText(product),
                          type |-> "image_with_text",
                          buttons |-> buttons,
                          context |-> newContext,
                          imageUrl |-> product.images[1]],
                         <<"getProductDetails", "logProductView">>)
            ELSE Replied([text |-> DetailsText(product),
                          type |-> "interactive_buttons",
                          buttons |-> buttons,
                          context |-> newContext],
                         <<"getProductDetails", "logProductView">>)

\* conversationService.js:345-401 handleRecommendationsFlow
handleRecommendationsFlow(customer, nlpResult, context, message, catalog) ==
    IF Len(catalog.getRecommendations) = 0
    THEN IF Len(catalog.getPopularProducts) = 0
         THEN Replied([text |-> <<"Sorry, no products available right now.">>,
                       type |-> "text",
                       context |-> [currentFlow |-> "welcome"]],
                      <<"getRecommendations", "getPopularProducts">>)
         ELSE Replied([text |-> <<"Here are our most popular products:">>,
                       type |-> "interactive_list",
                       buttonText |-> "View Products",
                       sections |-> <<[title |-> "Popular Products",
                                       rows |-> ProductRows(catalog.getPopularProducts)]>>,
                       context |-> [currentFlow |-> "product_details"]],
                      <<"getRecommendations", "getPopularProducts">>)
    ELSE Replied([text |-> <<"Personalized Recommendations for You">>,
                  type |-> "interactive_list",
                  buttonText |-> "View Recommendations",
                  sections |-> <<[title |-> "Recommended for You",
                                  rows |-> ProductRows(catalog.getRecommendations)]>>,
                  context |-> [currentFlow |-> "product_details"]],
                 <<"getRecommendations">>)

\* data/faqs.json, read at conversationService.js:405: the questions, with
\* their keywords and category
faqs ==
    <<[question |-> "opening", answer |-> "9 to 5", keywords |-> <<"hours">>,
       category |-> "General"]>>

\* conversationService.js:629-637 findMatchingFAQ: the questions one of
\* whose keywords, or the start of whose text, is in the message
MatchingFAQs(message) ==
    {i \in 1..Len(faqs) :
        \/ \E k \in 1..Len(faqs[i].keywords) :
              Includes(ToLowerCase(message), faqs[i].keywords[k])
        \/ Includes(ToLowerCase(message), faqs[i].question)}

\* conversationService.js:404-454 handleFAQFlow
handleFAQFlow(customer, nlpResult, context, message) ==
    IF MatchingFAQs(message) # {}
    THEN LET matchedFAQ == faqs[Min(MatchingFAQs(message))]
         IN Replied([text |-> <<matchedFAQ.question, matchedFAQ.answer>>,
                     type |-> "interactive_buttons",
                     buttons |-> <<[id |-> "faq_more"],
                                   [id |-> "contact_support"],
                                   [id |-> "browse_catalog"]>>,
                     context |-> [currentFlow |-> "faq"]], <<>>)
    ELSE Replied([text |-> <<"Frequently Asked Questions">>,
                  type |-> "interactive_list",
                  buttonText |-> "Browse FAQs",
                  sections |-> [i \in 1..Len(faqs) |->
                                  [title |-> faqs[i].category,
                                   rows |-> <<[id |-> <<"faq", faqs[i].category, 0>>,
                                               title |-> faqs[i].question]>>]],
                  context |-> [currentFlow |-> "faq"]], <<>>)

\* a support handler that names the intent, not the flow
handleSupportFlowNamesIntent(customer, nlpResult, context, message) ==
    Replied([text |-> <<"Customer Support">>,
             type |-> "interactive_buttons",
             buttons |-> <<[id |-> "faq"],
                           [id |-> "describe_issue"],
                           [id |-> "browse_catalog"]>>,
             context |-> [currentFlow |-> "contact_support"]], <<>>)

\* conversationService.js:457-479 handleSupportFlow
handleSupportFlow(customer, nlpResult, context, message) ==
    Replied([text |-> <<"Customer Support">>,
             type |-> "interactive_buttons",
             buttons |-> <<[id |-> "faq"],
                           [id |-> "describe_issue"],
                           [id |-> "browse_catalog"]>>,
             context |-> [currentFlow |-> "support"]], <<>>)

\* conversationService.js:483-487 the texts Math.random chooses from
fallbackResponses ==
    <<"I'm not sure I understand. Could you please rephrase that?",
      "I didn't quite get that. Can you try asking in a different way?",
      "Sorry, I'm not sure how to help with that.">>

\* conversationService.js:482-504 handleFallbackFlow, with the index that
\* Math.floor(Math.random() * fallbackResponses.length) gave
handleFallbackFlow(customer, nlpResult, context, message, random) ==
    Replied([text |-> <<fallbackResponses[random + 1],
                        "Here are some things I can help you with:">>,
             type |-> "interactive_buttons",
             buttons |-> <<[id |-> "browse_catalog"],
                           [id |-> "get_recommendations"],
                           [id |-> "faq"],
                           [id |-> "contact_support"]>>,
             context |-> [currentFlow |-> "welcome"]], <<>>)

\* conversationService.js:201 the first product entity, else the message
SearchQuery(nlpResult, message) ==
    IF Len(nlpResult.entities.products) > 0
    THEN <<nlpResult.entities.products[1]>>
    ELSE message

\* conversationService.js:198-259 handleSearchFlow.  entities.products.length
\* throws a TypeError when the result has no entities or the entities have
\* no products.
handleSearchFlow(customer, nlpResult, context, message, catalog) ==
    IF \/ "entities" \notin DOMAIN nlpResult
       \/ "products" \notin DOMAIN nlpResult.entities
    THEN Thrown(<<>>)
    ELSE LET searchQuery == SearchQuery(nlpResult, message) IN
    IF Length(searchQuery) < 2
    THEN Replied([text |-> <<"Please tell me what product you're looking for">>,
                  type |-> "text",
                  context |-> [currentFlow |-> "product_search"]], <<>>)
    ELSE IF Len(catalog.searchProducts) = 0
    THEN IF Len(catalog.getRecommendations) > 0
         THEN Replied([text |-> <<"Sorry, I couldn't find any products matching">>
                                \o searchQuery
                                \o <<"But you might like these instead:">>,
                       type |-> "interactive_buttons",
                       buttons |-> [i \in 1..Len(catalog.getRecommendations) |->
                                      [id |-> <<"product", catalog.getRecommendations[i].productId>>]],
                       context |-> [currentFlow |-> "product_details"]],
                      <<"searchProducts", "getRecommendations">>)
         ELSE Replied([text |-> <<"Sorry, I couldn't find any products matching">>
                                \o searchQuery
                                \o <<"Try searching for something else">>,
                       type |-> "text",
                       context |-> [currentFlow |-> "welcome"]],
                      <<"searchProducts", "getRecommendations">>)
    ELSE Replied([text |-> <<"Found products matching">> \o searchQuery,
                  type |-> "interactive_list",
                  buttonText |-> "View Products",
                  sections |-> <<[title |-> <<"Search Results for">> \o searchQuery,
                                  rows |-> ProductRows(catalog.searchProducts)]>>,
                  context |-> [currentFlow |-> "product_details",
                               searchQuery |-> searchQuery]],
                 <<"searchProducts">>)

\* conversationService.js:14-23, 45 this.flows[flow](customer, nlpResult,
\* context, message): the handler the table holds under the flow; the call
\* throws a TypeError when the table has no such key
Dispatch(flow, customer, nlpResult, context, message, catalog, random) ==
    CASE flow = "welcome" -> handleWelcomeFlow(customer, nlpResult, context, message)
      [] flow = "browse_catalog" ->
            handleBrowseFlow(customer, nlpResult, context, message, catalog)
      [] flow = "product_search" ->
            handleSearchFlow(customer, nlpResult, context, message, catalog)
      [] flow = "product_details" ->
            handleProductDetailsFlow(customer, nlpResult, context, message, catalog)
      [] flow = "recommendations" ->
            handleRecommendationsFlow(customer, nlpResult, context, message, catalog)
      [] flow = "faq" -> handleFAQFlow(customer, nlpResult, context, message)
      [] flow = "support" -> handleSupportFlow(customer, nlpResult, context, message)
      [] flow = "fallback" ->
            handleFallbackFlow(customer, nlpResult, context, message, random)
      [] OTHER -> Thrown(<<>>)

\* the texts of a turn: a greeting, one character, a product nobody sells,
\* the id of a row of the category list, the ids of rows of a product
\* list (of a product, of one the catalog does not hold and of no product)
\* and a question
TurnMessages ==
    {<<"hello">>, <<"x">>, <<"xyzzynotreal">>, <<"category_phones">>,
     <<"product_p1">>, <<"product_p9">>, <<"product_">>, <<"hours">>}

\* the classifications of a turn: those of the offline classifier and of
\* Gemini, whose entities are whatever its JSON holds
TurnNlpResults ==
    {[intent |-> i, confidence |-> c, entities |-> e] :
        i \in {"greeting", "search_product"},
        c \in {30, 60, 90},
        e \in {[products |-> <<>>], [products |-> <<"phone">>],
               [categories |-> <<>>]}}
    \cup {[intent |-> i, confidence |-> c, entities |-> [products |-> <<>>]] :
            i \in {"browse_catalog", "product_details", "get_recommendations",
                   "faq", "contact_support", "fallback"},
            c \in {30, 60, 90}}
    \cup {[intent |-> "search_product", confidence |-> c] : c \in {60, 90}}

\* the contexts of a stored Session: the empty one it was created with
\* (conversationService.js:592) and those the handlers leave (134, 208, 257,
\* 276, 320-324, 425, 477)
TurnContexts ==
    {<<>>, [currentFlow |-> "welcome"], [currentFlow |-> "product_search"],
     [currentFlow |-> "browse_catalog"],
     [currentFlow |-> "product_details", searchQuery |-> <<"phone">>],
     [currentFlow |-> "product_details", selectedProduct |-> "p3",
      productName |-> "Camera"],
     [currentFlow |-> "faq"], [currentFlow |-> "support"]}

InTurn(pc) == invocation.fn = "processMessage" /\ invocation.pc = pc

\* the context of a Session that Conversation.findOne returned
\* (conversationService.js:579-583).  The schema (part_004:7-46) has the
\* default minimize option, so an empty object is not stored and the field
\* of the document that is read back is undefined.
Hydrated(context) == IF context = <<>> THEN UndefinedObject ELSE context

\* conversationService.js:32 getCurrentConversation: the open Session of
\* the customer and day, or a new one with an empty context
TurnSession ==
    /\ InTurn("session")
    /\ LET sid == SessionId(invocation.customerId, today)
           found == OpenMatches(invocation.customerId, sid)
       IN IF found = {}
          THEN /\ conversations' = Append(conversations,
                     NewConversation(invocation.customerId, sid))
               /\ invocation' = [invocation EXCEPT !.conv = Len(conversations) + 1,
                                                   !.context = <<>>,
                                                   !.pc = "log"]
          ELSE /\ invocation' = [invocation EXCEPT
                                    !.conv = Min(found),
                                    !.context = Hydrated(conversations[Min(found)].context),
                                    !.pc = "log"]
               /\ UNCHANGED conversations
    /\ UNCHANGED <<today, customers, jobs, run, env, requests>>

\* conversationService.js:35-38 detectIntent has returned nlpResult; the
\* incoming message is logged
TurnLogIncoming ==
    /\ InTurn("log")
    /\ conversations' = logMessage(invocation.conv, "incoming", invocation.message)
    /\ invocation' = [invocation EXCEPT !.pc = "flow"]
    /\ UNCHANGED <<today, customers, jobs, run, env, requests>>

\* conversationService.js:103 context.currentFlow throws a TypeError when
\* the context is undefined and the confidence is between 0.4 and 0.7
TurnFlowThrows ==
    /\ invocation.context = UndefinedObject
    /\ invocation.nlpResult.confidence <= HighConfidence
    /\ invocation.nlpResult.confidence > MediumConfidence

\* the flow of the turn (conversationService.js:42)
TurnFlow == determineFlow(invocation.nlpResult, invocation.context)

\* conversationService.js:42 determineFlow threw
TurnDetermineFlowThrows ==
    /\ InTurn("flow")
    /\ TurnFlowThrows
    /\ invocation' = [invocation EXCEPT !.pc = "catch"]
    /\ UNCHANGED <<today, customers, conversations, jobs, run, env, requests>>

\* conversationService.js:44 this.flows[flow](...) returned or threw
Handled(flow, result) ==
    /\ InTurn("flow")
    /\ invocation' = [invocation EXCEPT !.flow = flow,
                                        !.result = result,
                                        !.pc = IF result.threw THEN "catch" ELSE "ctx"]
    /\ UNCHANGED <<today, customers, conversations, jobs, run, env, requests>>

HandleWelcome ==
    /\ ~TurnFlowThrows
    /\ TurnFlow = "welcome"
    /\ Handled("welcome",
               handleWelcomeFlow(invocation.customerId, invocation.nlpResult,
                                 invocation.context, invocation.message))

HandleBrowse ==
    /\ ~TurnFlowThrows
    /\ TurnFlow = "browse_catalog"
    /\ Handled("browse_catalog",
               handleBrowseFlow(invocation.customerId, invocation.nlpResult,
                                invocation.context, invocation.message,
                                invocation.catalog))

HandleSearch ==
    /\ ~TurnFlowThrows
    /\ TurnFlow = "product_search"
    /\ Handled("product_search",
               handleSearchFlow(invocation.customerId, invocation.nlpResult,
                                invocation.context, invocation.message,
                                invocation.catalog))

HandleProductDetails ==
    /\ ~TurnFlowThrows
    /\ TurnFlow = "product_details"
    /\ Handled("product_details",
               handleProductDetailsFlow(invocation.customerId, invocation.nlpResult,
                                        invocation.context, invocation.message,
                                        invocation.catalog))

HandleRecommendations ==
    /\ ~TurnFlowThrows
    /\ TurnFlow = "recommendations"
    /\ Handled("recommendations",
               handleRecommendationsFlow(invocation.customerId, invocation.nlpResult,
                                         invocation.context, invocation.message,
                                         invocation.catalog))

HandleFAQ ==
    /\ ~TurnFlowThrows
    /\ TurnFlow = "faq"
    /\ Handled("faq",
               handleFAQFlow(invocation.customerId, invocation.nlpResult,
                             invocation.context, invocation.message))

HandleSupport ==
    /\ ~TurnFlowThrows
    /\ TurnFlow = "support"
    /\ Handled("support",
               handleSupportFlow(invocation.customerId, invocation.nlpResult,
                                 invocation.context, invocation.message))

\* Math.random (conversationService.js:489) gives any of the indices
HandleFallback ==
    /\ ~TurnFlowThrows
    /\ TurnFlow = "fallback"
    /\ \E random \in 0..(Len(fallbackResponses) - 1) :
          Handled("fallback",
                  handleFallbackFlow(invocation.customerId, invocation.nlpResult,
                                     invocation.context, invocation.message,
                                     random))

\* conversationService.js:47 updateConversationContext(conversation._id,
\* response.context || {})
TurnUpdateContext ==
    /\ InTurn("ctx")
    /\ conversations' = updateConversationContext(invocation.conv,
          IF "context" \in DOMAIN invocation.result.response
          THEN invocation.result.response.context ELSE <<>>)
    /\ invocation' = [invocation EXCEPT !.pc = "logOut"]
    /\ UNCHANGED <<today, customers, jobs, run, env, requests>>

\* conversationService.js:50-55 the response is logged, sent and returned
TurnLogOutgoing ==
    /\ InTurn("logOut")
    /\ conversations' = logMessage(invocation.conv, "outgoing",
                                   invocation.result.response.text)
    /\ invocation' = [invocation EXCEPT !.sent = invocation.result.response,
                                        !.pc = "returned"]
    /\ UNCHANGED <<today, customers, jobs, run, env, requests>>

\* conversationService.js:57-65 the catch block sends and returns the
\* apology
TurnCatch ==
    /\ InTurn("catch")
    /\ invocation' = [invocation EXCEPT !.sent = fallbackResponse,
                                        !.pc = "returned"]
    /\ UNCHANGED <<today, customers, conversations, jobs, run, env, requests>>

---------------------------------------------------------------------------
(* WebhookController.processMessageEvent of the WhatsApp webhook           *)

\* the messages of a webhook event: a text, a text of white space, the
\* reply to a button and a voice message
EventMessages ==
    {[type |-> "text", text |-> [body |-> <<"hello">>]],
     [type |-> "text", text |-> [body |-> <<" ">>]],
     [type |-> "interactive",
      interactive |-> [type |-> "button_reply",
                       button_reply |-> [id |-> "browse_catalog"]]],
     [type |-> "audio"]}

\* part_007:92-125 the content and the type of a message, by its type
MessageContent(message) ==
    CASE message.type = "text" ->
            [content |-> IF "text" \in DOMAIN message THEN message.text.body ELSE <<>>,
             type |-> "text"]
      [] message.type = "interactive" ->
            (IF message.interactive.type = "button_reply"
             THEN [content |-> <<message.interactive.button_reply.id>>,
                   type |-> "button"]
             ELSE IF message.interactive.type = "list_reply"
             THEN [content |-> <<message.interactive.list_reply.id>>,
                   type |-> "list_selection"]
             ELSE [content |-> <<>>, type |-> "text"])
      [] message.type = "image" ->
            [content |-> IF "image" \in DOMAIN message /\ "caption" \in DOMAIN message.image
                         THEN message.image.caption ELSE <<"Image received">>,
             type |-> "image"]
      [] message.type = "document" ->
            [content |-> IF "document" \in DOMAIN message
                            /\ "caption" \in DOMAIN message.document
                         THEN message.document.caption ELSE <<"Document received">>,
             type |-> "document"]
      [] OTHER ->
            [content |-> <<"Received", message.type, "message">>,
             type |-> message.type]

\* part_007:128 !messageContent.trim()
IsEmptyMessage(message) == Trim(MessageContent(message).content) = <<>>

\* how a call of processMessage ends (conversationService.js:27-66): it
\* returns the flow response; or a step failed and it returns the apology
\* that sendResponse delivered (58-65); or the delivery of the apology
\* failed too, sendResponse rejected in the catch block (64, 548-555) and
\* processMessage rejects
ProcessMessageOutcomes == {"response", "apology", "rejected"}

InEvent(pc) == invocation.fn = "processMessageEvent" /\ invocation.pc = pc

\* part_007:87-139 one pass of the loop for a message with content:
\* markMessageAsRead, which catches its errors (147-153), and the awaited
\* processMessage.  A rejection leaves the loop for the catch block of
\* processMessageEvent (141-143), which logs it.
EventProcess(outcome) ==
    /\ InEvent("loop")
    /\ invocation.k <= Len(invocation.messages)
    /\ ~IsEmptyMessage(invocation.messages[invocation.k])
    /\ invocation' = [invocation EXCEPT
          !.handled = Append(@, [index |-> invocation.k,
                                 content |-> MessageContent(invocation.messages[invocation.k]).content,
                                 outcome |-> outcome]),
          !.k = IF outcome = "rejected" THEN @ ELSE @ + 1,
          !.pc = IF outcome = "rejected" THEN "ended" ELSE @]
    /\ UNCHANGED <<today, customers, conversations, jobs, run, env, requests>>

\* part_007:128-130 an empty message is skipped
EventSkip ==
    /\ InEvent("loop")
    /\ invocation.k <= Len(invocation.messages)
    /\ IsEmptyMessage(invocation.messages[invocation.k])
    /\ invocation' = [invocation EXCEPT !.k = @ + 1]
    /\ UNCHANGED <<today, customers, conversations, jobs, run, env, requests>>

\* part_007:87, 139 the loop is over
EventEnd ==
    /\ InEvent("loop")
    /\ invocation.k > Len(invocation.messages)
    /\ invocation' = [invocation EXCEPT !.pc = "ended"]
    /\ UNCHANGED <<today, customers, conversations, jobs, run, env, requests>>

---------------------------------------------------------------------------
Init ==
    /\ today = 1
    /\ customers = <<>>
    /\ conversations = <<>>
    /\ jobs = <<>>
    /\ run = <<>>
    /\ env = [NODE_ENV |-> "production", STRICT_VALIDATION |-> FALSE,
              TWILIO_AUTH_TOKEN |-> TRUE]
    /\ requests = <<>>
    /\ invocation = NoCall

Enqueue ==
    \E c \in Customers, m \in Messages :
        processIncomingMessage(c, m, "text")

\* the steps of a handler call in which no collaborator fails
HandlerStep ==
    \/ \E j \in 1..Len(jobs) : TrackReceived(j)
    \/ \E j \in 1..Len(jobs) : CustomerFind(j)
    \/ \E j \in 1..Len(jobs) : CustomerSave(j)
    \/ \E j \in 1..Len(jobs) : ConversationFind(j)
    \/ \E j \in 1..Len(jobs) : ConversationSave(j)
    \/ \E j \in 1..Len(jobs) : DetectIntent(j)
    \/ \E j \in 1..Len(jobs) : LogIncoming(j)
    \/ \E j \in 1..Len(jobs) : FlowHandler(j)
    \/ \E j \in 1..Len(jobs) : UpdateContext(j)
    \/ \E j \in 1..Len(jobs) : LogOutgoing(j)
    \/ \E j \in 1..Len(jobs) : Send(j, TRUE)
    \/ \E j \in 1..Len(jobs) : TrackSent(j)
    \/ \E j \in 1..Len(jobs) : Complete(j)

\* the steps in which a collaborator fails, and what the handler and the
\* queue do then
FailureStep ==
    \/ \E j \in 1..Len(jobs) : StepFails(j)
    \/ \E j \in 1..Len(jobs) : Send(j, FALSE)
    \/ \E j \in 1..Len(jobs), ok \in BOOLEAN : Resend(j, ok)
    \/ \E j \in 1..Len(jobs) : TrackError(j)
    \/ \E j \in 1..Len(jobs) : Fail(j)
    \/ \E j \in 1..Len(jobs) : Promote(j)

(* The pipeline: the queue, a worker that handles one job at a time, and   *)
(* collaborators (the store, the classifier, the transport adapter) that   *)
(* may fail any call.  Handler calls that run at once are the subject of   *)
(* the session specification.                                              *)
Next ==
    \/ (Len(jobs) < MaxJobs /\ Enqueue)
    \/ \E j \in 1..Len(jobs) : (ActiveJobs = {} /\ Claim(j))
    \/ HandlerStep
    \/ FailureStep

Spec == Init /\ [][Next]_vars

(* First contact: several jobs of the process_message pool run at once, on *)
(* days that pass; no collaborator fails.                                  *)
SessionNext ==
    \/ (Len(jobs) < MaxRacers /\ Enqueue)
    \/ \E j \in 1..Len(jobs) : Claim(j)
    \/ HandlerStep
    \/ Tick

SessionSpec == Init /\ [][SessionNext]_vars

(* Arrival order: two messages m1, m2 of one customer were added to the    *)
(* queue in this order; the pool takes the waiting jobs in the order they  *)
(* were added and runs them at once.                                       *)
OldestWaiting(j) == \A i \in 1..(j - 1) : jobs[i].state # "waiting"

OrderInit ==
    /\ today = 1
    /\ customers = <<>>
    /\ conversations = <<>>
    /\ \E c \in Customers : \E m1 \in Messages, m2 \in Messages :
          jobs = <<NewJob("process_message",
                          [customerId |-> c, message |-> m1,
                           messageType |-> "text"], <<>>),
                   NewJob("process_message",
                          [customerId |-> c, message |-> m2,
                           messageType |-> "text"], <<>>)>>
    /\ run = <<IdleRun, IdleRun>>
    /\ env = [NODE_ENV |-> "production", STRICT_VALIDATION |-> FALSE,
              TWILIO_AUTH_TOKEN |-> TRUE]
    /\ requests = <<>>
    /\ invocation = NoCall

OrderNext ==
    \/ \E j \in 1..Len(jobs) : (OldestWaiting(j) /\ Claim(j))
    \/ HandlerStep

OrderSpec == OrderInit /\ [][OrderNext]_vars

(* The message log: two jobs of a returning customer run at once.  The     *)
(* first failed its first attempt at the customer lookup, with the apology *)
(* undelivered, and waits for its retry; the collaborators may fail any    *)
(* call of it again.                                                       *)
LogInit ==
    /\ today = 1
    /\ \E c \in Customers : \E m1 \in Messages, m2 \in Messages :
          /\ customers = <<c>>
          /\ conversations = <<>>
          /\ jobs = <<[NewJob("process_message",
                              [customerId |-> c, message |-> m1,
                               messageType |-> "text"], <<>>)
                          EXCEPT !.state = "delayed",
                                 !.calls = 1,
                                 !.attemptsMade = 1,
                                 !.delays = <<BackoffDelay(defaultOptions.backoff, 1)>>],
                      NewJob("process_message",
                             [customerId |-> c, message |-> m2,
                              messageType |-> "text"], <<>>)>>
    /\ run = <<IdleRun, IdleRun>>
    /\ env = [NODE_ENV |-> "production", STRICT_VALIDATION |-> FALSE,
              TWILIO_AUTH_TOKEN |-> TRUE]
    /\ requests = <<>>
    /\ invocation = NoCall

LogNext ==
    \/ \E j \in 1..Len(jobs) : (OldestWaiting(j) /\ Claim(j))
    \/ HandlerStep
    \/ StepFails(1)
    \/ Send(1, FALSE)
    \/ \E ok \in BOOLEAN : Resend(1, ok)
    \/ TrackError(1)
    \/ Fail(1)
    \/ Promote(1)

LogSpec == LogInit /\ [][LogNext]_vars

(* The worker slots of the two queues.                                     *)
PoolInit ==
    /\ today = 1
    /\ customers = <<>>
    /\ conversations = <<>>
    /\ jobs = <<>>
    /\ run = <<>>
    /\ env = [NODE_ENV |-> "production", STRICT_VALIDATION |-> FALSE,
              TWILIO_AUTH_TOKEN |-> TRUE]
    /\ requests = <<>>
    /\ invocation = [fn |-> "pools",
                     waiting |-> [kind \in JobKinds |-> 0],
                     active |-> [kind \in JobKinds |-> 0]]

PoolNext ==
    \/ \E kind \in JobKinds : PoolAdd(kind)
    \/ \E kind \in JobKinds : PoolTake(kind)
    \/ \E kind \in JobKinds : PoolFinish(kind)

PoolSpec == PoolInit /\ [][PoolNext]_vars

(* The terminal jobs the two queues keep over the days.                    *)
RetentionInit ==
    /\ today = 1
    /\ customers = <<>>
    /\ conversations = <<>>
    /\ jobs = <<>>
    /\ run = <<>>
    /\ env = [NODE_ENV |-> "production", STRICT_VALIDATION |-> FALSE,
              TWILIO_AUTH_TOKEN |-> TRUE]
    /\ requests = <<>>
    /\ invocation = [fn |-> "retention", now |-> 0,
                     pending |-> [queue \in Queues |-> 0],
                     completed |-> [queue \in Queues |-> <<>>],
                     failed |-> [queue \in Queues |-> <<>>]]

RetentionNext ==
    \/ \E queue \in Queues : RetentionAdd(queue)
    \/ \E queue \in Queues : RetentionComplete(queue)
    \/ \E queue \in Queues : RetentionFail(queue)
    \/ DayPasses

RetentionSpec == RetentionInit /\ [][RetentionNext]_vars

(* One turn of processMessage in which no collaborator fails: a customer  *)
(* with or without a Session of the day, a message, its classification    *)
(* and the content of the catalog.                                         *)
TurnInit ==
    /\ today = 1
    /\ \E c \in Customers :
          /\ customers = <<c>>
          /\ \/ conversations = <<>>
             \/ \E context \in TurnContexts :
                   conversations =
                       <<[NewConversation(c, SessionId(c, 1)) EXCEPT
                             !.context = context]>>
          /\ \E message \in TurnMessages, nlpResult \in TurnNlpResults,
                catalog \in Catalogs :
                   invocation = [fn |-> "processMessage", pc |-> "session",
                                 customerId |-> c, message |-> message,
                                 nlpResult |-> nlpResult, catalog |-> catalog,
                                 prior |-> conversations,
                                 conv |-> 0, context |-> <<>>,
                                 flow |-> Undefined,
                                 result |-> Thrown(<<>>),
                                 sent |-> NoValue]
    /\ jobs = <<>>
    /\ run = <<>>
    /\ env = [NODE_ENV |-> "production", STRICT_VALIDATION |-> FALSE,
              TWILIO_AUTH_TOKEN |-> TRUE]
    /\ requests = <<>>

TurnNext ==
    \/ TurnSession
    \/ TurnLogIncoming
    \/ HandleWelcome
    \/ HandleBrowse
    \/ HandleSearch
    \/ HandleProductDetails
    \/ HandleRecommendations
    \/ HandleFAQ
    \/ HandleSupport
    \/ HandleFallback
    \/ TurnDetermineFlowThrows
    \/ TurnUpdateContext
    \/ TurnLogOutgoing
    \/ TurnCatch

TurnSpec == TurnInit /\ [][TurnNext]_vars

(* The context of one Session over the turns of a dialogue: each turn is  *)
(* determineFlow, the handler it selects and updateConversationContext,   *)
(* for any message, classification and content of the catalog.            *)
\* a message of the customer arrives, with its classification and the
\* content of the catalog at that time
DialogueReceive ==
    /\ invocation.fn = "dialogue" /\ invocation.pc = "idle"
    /\ \E message \in TurnMessages, nlpResult \in TurnNlpResults,
          catalog \in Catalogs :
          invocation' = [invocation EXCEPT !.pc = "flow",
                                           !.message = message,
                                           !.nlpResult = nlpResult,
                                           !.catalog = catalog,
                                           !.context = <<>>,
                                           !.flow = Undefined,
                                           !.result = Thrown(<<>>)]
    /\ UNCHANGED <<today, customers, conversations, jobs, run, env, requests>>

\* conversationService.js:42-48 in a turn in which no collaborator fails;
\* the context is the one of the document: {} in the turn that created the
\* Session, what the store returns in the others
DialogueTurn ==
    /\ invocation.fn = "dialogue" /\ invocation.pc = "flow"
    /\ \E random \in 0..(Len(fallbackResponses) - 1) :
          LET nlpResult == invocation.nlpResult
              context == IF invocation.created THEN <<>>
                         ELSE Hydrated(invocation.stored)
              throws == /\ context = UndefinedObject
                        /\ nlpResult.confidence <= HighConfidence
                        /\ nlpResult.confidence > MediumConfidence
              flow == IF throws THEN Undefined ELSE determineFlow(nlpResult, context)
              result == IF throws THEN Thrown(<<>>)
                        ELSE Dispatch(flow, invocation.customerId, nlpResult,
                                      context, invocation.message,
                                      invocation.catalog, random)
          IN invocation' = [invocation EXCEPT
                !.pc = "idle",
                !.created = FALSE,
                !.message = NoValue,
                !.catalog = NoValue,
                !.context = context,
                !.flow = flow,
                !.result = result,
                !.stored = IF result.threw THEN @
                           ELSE IF "context" \in DOMAIN result.response
                                THEN result.response.context ELSE <<>>]
    /\ UNCHANGED <<today, customers, conversations, jobs, run, env, requests>>

DialogueInit ==
    /\ today = 1
    /\ customers = <<>>
    /\ conversations = <<>>
    /\ jobs = <<>>
    /\ run = <<>>
    /\ env = [NODE_ENV |-> "production", STRICT_VALIDATION |-> FALSE,
              TWILIO_AUTH_TOKEN |-> TRUE]
    /\ requests = <<>>
    /\ \E c \in Customers :
          invocation = [fn |-> "dialogue", pc |-> "idle", customerId |-> c,
                        created |-> TRUE, stored |-> <<>>,
                        message |-> NoValue, catalog |-> NoValue,
                        nlpResult |-> NoValue, context |-> <<>>,
                        flow |-> Undefined, result |-> Thrown(<<>>)]

DialogueNext ==
    \/ DialogueReceive
    \/ DialogueTurn

DialogueSpec == DialogueInit /\ [][DialogueNext]_vars

(* One webhook event of the WhatsApp webhook with its list of messages.    *)
EventInit ==
    /\ today = 1
    /\ customers = <<>>
    /\ conversations = <<>>
    /\ jobs = <<>>
    /\ run = <<>>
    /\ env = [NODE_ENV |-> "production", STRICT_VALIDATION |-> FALSE,
              TWILIO_AUTH_TOKEN |-> TRUE]
    /\ requests = <<>>
    /\ \E n \in 1..MaxEventMessages : \E messages \in [1..n -> EventMessages] :
          invocation = [fn |-> "processMessageEvent", pc |-> "loop",
                        messages |-> messages, k |-> 1, handled |-> <<>>]

EventNext ==
    \/ \E outcome \in ProcessMessageOutcomes : EventProcess(outcome)
    \/ EventSkip
    \/ EventEnd

EventSpec == EventInit /\ [][EventNext]_vars

(* The automatic reply of the webhook, for every message body.             *)
AutoInit ==
    /\ today = 1
    /\ customers = <<>>
    /\ conversations = <<>>
    /\ jobs = <<>>
    /\ run = <<>>
    /\ env = [NODE_ENV |-> "production", STRICT_VALIDATION |-> FALSE,
              TWILIO_AUTH_TOKEN |-> TRUE]
    /\ requests = <<>>
    /\ \E messageBody \in AutoMessages :
          invocation = [fn |-> "generateAutoResponse", pc |-> "called",
                        messageBody |-> messageBody, result |-> Undefined]

AutoNext == GenerateAutoResponse

AutoSpec == AutoInit /\ [][AutoNext]_vars

(* The offline classifier after training, called again and again.          *)
OfflineInit ==
    /\ today = 1
    /\ customers = <<>>
    /\ conversations = <<>>
    /\ jobs = <<>>
    /\ run = <<>>
    /\ env = [NODE_ENV |-> "production", STRICT_VALIDATION |-> FALSE,
              TWILIO_AUTH_TOKEN |-> TRUE]
    /\ requests = <<>>
    /\ invocation = [fn |-> "detectIntentWithNatural", log |-> <<>>]

OfflineNext == \E message \in OfflineMessages : CallNatural(message)

OfflineSpec == OfflineInit /\ [][OfflineNext]_vars

(* One job at a time: a job is taken only when no other one is active.     *)
SequentialNext ==
    \/ (Len(jobs) < MaxRacers /\ Enqueue)
    \/ \E j \in 1..Len(jobs) : (ActiveJobs = {} /\ Claim(j))
    \/ HandlerStep
    \/ Tick

SequentialSpec == Init /\ [][SequentialNext]_vars

(* Stalls: the queue, a worker that handles one job at a time, and leases  *)
(* that run out.  The worker goes on with the call it is in and takes a   *)
(* waiting job whenever it is free.                                        *)
StallNext ==
    \/ (Len(jobs) < MaxStallJobs /\ Enqueue)
    \/ \E j \in 1..Len(jobs) : (ActiveJobs = {} /\ Claim(j))
    \/ \E j \in 1..Len(jobs) : Stall(j)
    \/ HandlerStep

StallFairness ==
    /\ WF_vars(HandlerStep)
    /\ \A j \in 1..MaxStallJobs :
          WF_vars(j \in 1..Len(jobs) /\ ActiveJobs = {} /\ Claim(j))

StallSpec == Init /\ [][StallNext]_vars /\ StallFairness

(* The flow selection on its own: determineFlow called with every         *)
(* classification and every context.                                       *)
FlowInit ==
    /\ today = 1
    /\ customers = <<>>
    /\ conversations = <<>>
    /\ jobs = <<>>
    /\ run = <<>>
    /\ env = [NODE_ENV |-> "production", STRICT_VALIDATION |-> FALSE,
              TWILIO_AUTH_TOKEN |-> TRUE]
    /\ requests = <<>>
    /\ invocation \in {[fn |-> "determineFlow", pc |-> "called",
                         nlpResult |-> n, context |-> c, flow |-> Undefined] :
                            n \in NlpResults, c \in Contexts}

FlowNext == DetermineFlow

FlowSpec == FlowInit /\ [][FlowNext]_vars

(* The classifier on its own: detectIntent called with and without Gemini, *)
(* and a Gemini that answers, fails, or never answers.  The program goes   *)
(* on whenever it can.                                                     *)
NlpInit ==
    /\ today = 1
    /\ customers = <<>>
    /\ conversations = <<>>
    /\ jobs = <<>>
    /\ run = <<>>
    /\ env = [NODE_ENV |-> "production", STRICT_VALIDATION |-> FALSE,
              TWILIO_AUTH_TOKEN |-> TRUE]
    /\ requests = <<>>
    /\ invocation \in {[fn |-> "detectIntent", pc |-> "called", message |-> msg,
                         geminiEnabled |-> g, primaryFailed |-> "no",
                         result |-> <<>>] :
                            msg \in NlpMessages, g \in BOOLEAN}

NlpNext ==
    \/ GenerateContent
    \/ ClassifyOffline
    \/ \E text \in GeminiTexts : GeminiResolves(text)
    \/ GeminiRejects
    \/ GeminiNeverSettles
    \/ CatchGeminiError

NlpSpec == NlpInit /\ [][NlpNext]_vars /\ WF_vars(NlpNext)

(* The ingress: webhook requests under every configuration, and the        *)
(* callbacks they schedule.                                                *)
IngressInit ==
    /\ today = 1
    /\ customers = <<>>
    /\ conversations = <<>>
    /\ jobs = <<>>
    /\ run = <<>>
    /\ env \in Envs
    /\ requests = <<>>
    /\ invocation = NoCall

IngressNext ==
    \/ (Len(requests) < MaxRequests /\ \E req \in WebhookRequests : handleWebhook(req))
    \/ \E i \in 1..Len(requests), ok \in BOOLEAN : AutoRespond(i, ok)
    \/ \E i \in 1..Len(requests), ok \in BOOLEAN : ErrorRespond(i, ok)

IngressSpec == IngressInit /\ [][IngressNext]_vars

---------------------------------------------------------------------------
(* Properties *)

JobIds == 1..Len(jobs)

\* the sessions of a customer that are open (endTime unset)
OpenSessions(c) ==
    {i \in 1..Len(conversations) :
        conversations[i].customerId = c /\ ~conversations[i].endTime}

\* the handler call of job j has loaded or created its conversation
HasSession(j) == run[j].conv # 0

\* C1: when workers run getCurrentConversation for the same customer on the
\* same day, there is one open Session of that customer and day, and all of
\* them work on that one record.
C1_OneSessionPerRace ==
    /\ \A c \in Customers : \A d \in 1..MaxDay :
          Cardinality(OpenMatches(c, SessionId(c, d))) <= 1
    /\ \A j1 \in JobIds : \A j2 \in JobIds :
          (/\ HasSession(j1) /\ HasSession(j2)
           /\ run[j1].sid = run[j2].sid)
          => run[j1].conv = run[j2].conv

\* C2: each customer has at most one open Session, and the Session of an
\* earlier day is closed once a Session of a later day exists.
C2_AtMostOneOpenSession ==
    /\ \A c \in Customers : Cardinality(OpenSessions(c)) <= 1
    /\ \A i \in 1..Len(conversations) : \A k \in 1..Len(conversations) :
          (/\ conversations[i].customerId = conversations[k].customerId
           /\ conversations[i].sessionId[3] < conversations[k].sessionId[3])
          => conversations[i].endTime

\* C3: an attempt in which a step of processMessage raised never resolves:
\* the handler rejects, and the queue never records the job completed.
C3_ErrorIsReraised ==
    \A j \in JobIds :
        run[j].stepFailed => run[j].pc \notin {"trackSent", "returned"}

\* the calls of the transport adapter that carried the generic apology
ApologySends(r) ==
    {i \in 1..Len(r.wire) :
        /\ r.wire[i].phase = "catch"
        /\ r.wire[i].call = "sendTextMessage"
        /\ r.wire[i].text = fallbackResponse.text}

\* C4: an attempt in which a step of the pipeline raised has called the
\* transport adapter with the generic apology before it ends, and no attempt
\* ends in failure without such a call.
C4_ApologyBeforeAttemptEnds ==
    \A j \in JobIds :
        /\ (run[j].stepFailed
              /\ run[j].pc \in {"trackSent", "trackError", "returned", "thrown"})
           => ApologySends(run[j]) # {}
        /\ run[j].pc \in {"trackError", "thrown"}
           => ApologySends(run[j]) # {}

C4_Witness ==
    \E j \in JobIds :
        /\ run[j].stepFailed
        /\ run[j].pc = "thrown"
        /\ ApologySends(run[j]) # {}

\* C5: a job enqueued with the default options is given to the handler at
\* most 3 times, is failed after exactly 3 failed attempts, and the delays
\* before its retries are 2000 ms, doubled each time, so strictly increasing.
C5_RetryLaw ==
    \A j \in JobIds :
        /\ jobs[j].calls <= 3
        /\ jobs[j].attemptsMade <= 3
        /\ (run[j].pc = "thrown" /\ jobs[j].state = "active" /\ jobs[j].calls < 3)
              => jobs[j].attemptsMade = jobs[j].calls - 1
        /\ jobs[j].state = "failed" <=> jobs[j].attemptsMade = 3
        /\ jobs[j].state = "failed" => jobs[j].calls = 3 /\ Len(jobs[j].delays) = 2
        /\ jobs[j].state = "delayed" => Len(jobs[j].delays) = jobs[j].attemptsMade
        /\ \A k \in 1..Len(jobs[j].delays) :
              jobs[j].delays[k] = 2000 * Pow2(k - 1)
        /\ \A k \in 1..(Len(jobs[j].delays) - 1) :
              jobs[j].delays[k] < jobs[j].delays[k + 1]

C5_Witness ==
    \E j \in JobIds :
        /\ jobs[j].state = "failed"
        /\ jobs[j].calls = 3
        /\ jobs[j].delays = <<2000, 4000>>

\* the transport adapter raised while the response was being sent
DeliveryError(r) ==
    \E i \in 1..Len(r.wire) : r.wire[i].phase = "try" /\ ~r.wire[i].ok

\* C7: an attempt in which the transport adapter raised while the response
\* was sent ends as a failure of the job: the handler does not resolve.
C7_DeliveryErrorFailsAttempt ==
    \A j \in JobIds :
        DeliveryError(run[j]) => run[j].pc # "returned"

SendsOf(r, phase, text) ==
    {i \in 1..Len(r.wire) : r.wire[i].phase = phase /\ r.wire[i].text = text}

Deliveries(j) ==
    jobs[j].attemptsMade + jobs[j].stalledCount
        + (IF jobs[j].state \in {"active", "completed"} THEN 1 ELSE 0)

\* C6: a stall returns the active job to waiting, once: the job stays in the
\* queue, no copy of it is added, it is given to a worker again, and each
\* stall accounts for exactly one more call of the handler.
C6_StallRequeuesOnce ==
    /\ [][\A j \in 1..Len(jobs) :
            jobs'[j].stalledCount # jobs[j].stalledCount =>
               /\ jobs'[j].stalledCount = jobs[j].stalledCount + 1
               /\ jobs[j].state = "active"
               /\ jobs'[j].state = "waiting"
               /\ jobs'[j].calls = jobs[j].calls
               /\ Len(jobs') = Len(jobs)
               /\ \A k \in 1..Len(jobs) : k # j => jobs'[k] = jobs[k]]_vars
    /\ [](\A j \in 1..Len(jobs) : jobs[j].calls = Deliveries(j))
    /\ \A j \in 1..MaxStallJobs : \A n \in 1..MaxStalls :
          (j \in 1..Len(jobs) /\ jobs[j].state = "waiting"
              /\ jobs[j].stalledCount = n)
          ~> (j \in 1..Len(jobs) /\ jobs[j].state = "active"
                 /\ jobs[j].calls = n + 1)

C6_Witness ==
    \E j \in JobIds :
        /\ jobs[j].stalledCount = 1
        /\ jobs[j].state = "active"
        /\ jobs[j].calls = 2

\* the request passed the signature check, has content and names its sender
Accepted(i) ==
    /\ ~Forbidden(env, requests[i].req)
    /\ ~NoContent(requests[i].req)
    /\ requests[i].req.From # NoValue

AcceptedRequests == {i \in 1..Len(requests) : Accepted(i)}

\* C9: every accepted request has enqueued exactly one process_message job
\* with the normalized customerId, message and message type, and the ingress
\* has done nothing else with the message: no reply is generated or sent.
C9_AcceptedRequestEnqueuesOneJob ==
    /\ Cardinality({j \in JobIds : jobs[j].name = "process_message"})
          = Cardinality(AcceptedRequests)
    /\ \A i \in AcceptedRequests : \E j \in JobIds :
          jobs[j].data = [customerId  |-> requests[i].customerId,
                          message     |-> requests[i].message,
                          messageType |-> requests[i].messageType]
    /\ \A i \in 1..Len(requests) :
          requests[i].cb.pc = "none" /\ requests[i].cb.wire = <<>>

\* C10: every accepted request was answered 200 when its processing was
\* scheduled and had not run, and the answer is the same whether the
\* processing is still to run, succeeded, or failed.
C10_AckBeforeProcessing ==
    \A i \in AcceptedRequests :
        /\ requests[i].status = 200
        /\ requests[i].ackedAt = "scheduled"
        /\ requests[i].cb.pc \in {"scheduled", "catch", "done", "rejected"}

C10_Witness ==
    \E i \in AcceptedRequests :
        /\ requests[i].cb.pc = "rejected"
        /\ requests[i].status = 200

---------------------------------------------------------------------------
\* Signature validation at the ingress

\* the validation of the signature is switched off: development mode, unless
\* validation was asked for with STRICT_VALIDATION
DevelopmentBypass(e) == e.NODE_ENV = "development" /\ ~e.STRICT_VALIDATION

BadSignature(req) == req.signature \in {"missing", "invalid"}

Untouched(i) ==
    /\ requests[i].cb = NoCallback
    /\ requests[i].ackedAt = "none"
    /\ jobs = <<>>

\* C11: when the shared secret is configured and the development bypass is
\* not enabled, a request whose signature is missing or invalid is answered
\* with an authentication failure and its message is never enqueued,
\* processed or answered.
C11_BadSignatureRejected ==
    \A i \in 1..Len(requests) :
        (env.TWILIO_AUTH_TOKEN /\ ~DevelopmentBypass(env)
            /\ BadSignature(requests[i].req))
        => (requests[i].status \in {401, 403} /\ Untouched(i))

\* C12: with NODE_ENV = production, whatever the other flags and the
\* request, a request whose signature failed validation is rejected and its
\* message is not processed; a processed message with a failed signature
\* exists only when NODE_ENV is not production.
C12_NoBypassInProduction ==
    \A i \in 1..Len(requests) :
        ~validateTwilioSignature(requests[i].req)
        => IF env.NODE_ENV = "production"
           THEN requests[i].status = 403 /\ Untouched(i)
           ELSE requests[i].status # 403

C12_Witness ==
    \E i \in 1..Len(requests) :
        /\ env.NODE_ENV = "production"
        /\ env.TWILIO_AUTH_TOKEN
        /\ requests[i].req.signature = "invalid"
        /\ requests[i].req.Body # ""
        /\ requests[i].req.From # NoValue
        /\ requests[i].status = 403

\* C13: a request that passed the signature check, whose text is empty and
\* that carries no media, is answered 200 and leads to no job, no processing
\* and no outbound message.
C13_EmptyMessageIsNoOp ==
    \A i \in 1..Len(requests) :
        (~Forbidden(env, requests[i].req)
            /\ requests[i].req.Body = ""
            /\ requests[i].req.MediaUrl0 = NoValue)
        => (requests[i].status = 200 /\ Untouched(i))

C13_Witness ==
    \E i \in 1..Len(requests) :
        /\ requests[i].req.Body = ""
        /\ requests[i].req.MediaUrl0 = NoValue
        /\ requests[i].req.MediaContentType0 # NoValue
        /\ requests[i].req.From # NoValue
        /\ requests[i].status = 200

---------------------------------------------------------------------------
\* Flow selection

Returned(fn) == invocation.fn = fn /\ invocation.pc = "returned"

\* C14: with confidence above 0.7 the flow determineFlow returned is the
\* flow it returns for the same classification and every other context.
C14_HighConfidenceIgnoresContext ==
    (Returned("determineFlow") /\ invocation.nlpResult.confidence > 70)
    => \A c \in Contexts :
          determineFlow(invocation.nlpResult, c) = invocation.flow

C14_Witness ==
    /\ Returned("determineFlow")
    /\ invocation.nlpResult.confidence > 70
    /\ Truthy(Get(invocation.context, "currentFlow"))
    /\ invocation.flow # Get(invocation.context, "currentFlow")

\* C15: with confidence above 0.4 and at most 0.7 and a context whose
\* currentFlow is set, determineFlow returns context.currentFlow whatever
\* the intent.
C15_MediumConfidenceContinues ==
    (/\ Returned("determineFlow")
     /\ invocation.nlpResult.confidence > 40
     /\ invocation.nlpResult.confidence <= 70
     /\ Get(invocation.context, "currentFlow") \notin {Undefined, Null, ""})
    => invocation.flow = invocation.context.currentFlow

C15_Witness ==
    /\ Returned("determineFlow")
    /\ invocation.nlpResult.confidence = 41
    /\ invocation.nlpResult.intent = "greeting"
    /\ Get(invocation.context, "currentFlow") = "support"
    /\ invocation.flow = "support"

\* the intents of the lookup table (conversationService.js:76-95)
TableIntents ==
    {"greeting", "get_started", "browse_catalog", "show_products",
     "search_product", "find_product", "product_details", "more_info",
     "get_recommendations", "suggest_products", "faq", "help",
     "contact_support", "human_agent"}

---------------------------------------------------------------------------
\* The context and the order of the pipeline

\* the prior context with the keys of the patch overwritten
Merge(prior, patch) ==
    [key \in DOMAIN prior \cup DOMAIN patch |->
        IF key \in DOMAIN patch THEN patch[key] ELSE prior[key]]

\* the handler call of job j has updated the context of its conversation
ContextUpdated(j) ==
    /\ Active(j)
    /\ run[j].phase = "try"
    /\ run[j].pc \in {"logOut", "send", "resend", "trackSent", "returned"}

\* C17: after a message is processed the context of the Session is the
\* prior context merged with the context the handler returned: keys the
\* handler does not mention keep their value, keys it mentions take its.
C17_ContextMerged ==
    \A j \in JobIds :
        ContextUpdated(j)
        => conversations[run[j].conv].context
              = Merge(run[j].context, run[j].response.context)

IsPrefix(s, t) == Len(s) <= Len(t) /\ s = SubSeq(t, 1, Len(s))

\* the response of the try block has been handed to the transport adapter
HandedOver(j) ==
    \E i \in 1..Len(run[j].wire) : run[j].wire[i].phase = "try"

\* C18: the steps of a handler call happen in the order session, inbound
\* message logged, classifier, state machine, context update, outbound
\* message logged, transport adapter: the inbound message is in the log
\* when classification starts.
C18_LoggedBeforeClassified ==
    \A j \in JobIds :
        LET order == <<"session", "logIncoming", "classify", "stateMachine",
                       "updateContext", "logOutgoing">>
        IN /\ IsPrefix(run[j].steps, order)
           /\ HandedOver(j) => run[j].steps = order

\* C18 as the program has it: session, classifier, inbound message logged
\* with its classification, state machine, context update, outbound
\* message logged, transport adapter; the inbound message is not in the
\* log before the classifier has returned.
C18_PipelineOrder ==
    \A j \in JobIds :
        LET order == <<"session", "classify", "logIncoming", "stateMachine",
                       "updateContext", "logOutgoing">>
        IN /\ IsPrefix(run[j].steps, order)
           /\ HandedOver(j) => run[j].steps = order
           /\ (Active(j) /\ run[j].pc = "nlp" /\ run[j].isNew)
              => conversations[run[j].conv].messages = <<>>

C18_Witness ==
    \E j \in JobIds :
        /\ run[j].pc = "returned"
        /\ ~run[j].stepFailed
        /\ Len(run[j].steps) = 6
        /\ Len(conversations[run[j].conv].messages) = 2
        /\ HandedOver(j)

---------------------------------------------------------------------------
\* The classifier

\* C19: detectIntent never raises because the primary path failed: after a
\* transport error or a response that does not parse it returns the result
\* of the offline classifier for the same text.
C19_PrimaryFailureFallsBack ==
    (invocation.fn = "detectIntent" /\ invocation.primaryFailed # "no")
    => /\ invocation.pc \in {"catch", "returned"}
       /\ invocation.pc = "returned"
          => invocation.result = detectIntentWithNatural(invocation.message)

C19_Witness ==
    /\ InDetectIntent("returned")
    /\ invocation.primaryFailed = "parse"
    /\ invocation.message = <<"PHONE">>
    /\ invocation.result.source = "natural"
    /\ invocation.result.intent = "search_product"

\* C20: a call of detectIntent always ends, also when the primary
\* classifier never answers: the offline classifier is used and a result
\* is returned, so that the job attempt is not blocked on the classifier.
C20_ClassificationTerminates ==
    InDetectIntent("called") ~> InDetectIntent("returned")

\* the classification is one the offline classifier gives a text for whose
\* label it has no value
OfflineWithoutPosterior(nlpResult) ==
    \E msg \in NlpMessages :
        /\ detectIntentWithNatural(msg).intent = nlpResult.intent
        /\ detectIntentWithNatural(msg).confidence = nlpResult.confidence
        /\ nlpResult.confidence = NeutralConfidence

\* C21: a classification of the offline classifier that carries the neutral
\* confidence, reported when there is no value for the label, is treated as
\* low confidence: determineFlow returns fallback whatever currentFlow the
\* context holds.
C21_NeutralConfidenceIsLow ==
    (Returned("determineFlow") /\ OfflineWithoutPosterior(invocation.nlpResult))
    => invocation.flow = "fallback"

\* a ClassificationResult: an intent, a confidence within 0..1, entities
\* with a products entry, and a sentiment with score and label
IsClassificationResult(result) ==
    /\ {"intent", "confidence", "entities", "sentiment"} \subseteq DOMAIN result
    /\ result.confidence \in 0..100
    /\ "products" \in DOMAIN result.entities
    /\ {"score", "sentiment"} \subseteq DOMAIN result.sentiment

\* C22: every result detectIntent returns, from either path and for every
\* response of Gemini, is a ClassificationResult; a response that lacks a
\* field or has a confidence out of range is not returned as it is.
C22_ResultIsWellFormed ==
    InDetectIntent("returned") => IsClassificationResult(invocation.result)

\* the handler call of job j has not yet updated the context of its Session
BeforeContextUpdate(j) ==
    /\ jobs[j].state = "active"
    /\ \A k \in 1..Len(run[j].steps) : run[j].steps[k] # "updateContext"

\* C23: nothing serializes the jobs of one customer: while slots of the
\* pool are free, a waiting process_message job can be taken whatever jobs
\* are active, those of its own customer included, so that the job of a
\* later message can update the context and reply before the job of an
\* earlier one does.
C23_NoPerCustomerOrder ==
    \A j \in JobIds :
        (/\ jobs[j].state = "waiting"
         /\ Cardinality(ActiveJobs) < ProcessMessageConcurrency)
        => ENABLED Claim(j)

\* m1 and m2 of one customer were added and taken in this order; the call
\* for m2 has updated the context, replied and completed while the call for
\* m1 has not yet updated the context
C23_Witness ==
    /\ Len(jobs) = 2
    /\ CustomerOf(1) = CustomerOf(2)
    /\ BeforeContextUpdate(1)
    /\ jobs[2].state = "completed"

\* C24: the active jobs of a kind never exceed the limit its processor was
\* registered with: 10 for process_message, 5 for update_analytics.
C24_LimitPerKind ==
    InPools =>
        /\ invocation.active["process_message"] <= ProcessMessageConcurrency
        /\ invocation.active["update_analytics"] <= UpdateAnalyticsConcurrency

\* C25: at the end of every day the two queues keep no completed or failed
\* job that is beyond the retention age: what is kept is what a run of the
\* cleanup leaves.
C25_RetainedWithinAge ==
    InRetention =>
        /\ invocation.completed = cleanupJobs(invocation).completed
        /\ invocation.failed = cleanupJobs(invocation).failed

\* C26: the first message of a customer without a Session, classified as a
\* greeting with confidence above 0.7, selects the welcome flow, is answered
\* with a buttons response of exactly 4 buttons, and leaves the context of
\* the Session with currentFlow = 'welcome'.
C26_FirstGreetingWelcomes ==
    (/\ InTurn("returned")
     /\ invocation.prior = <<>>
     /\ invocation.nlpResult.intent = "greeting"
     /\ invocation.nlpResult.confidence > HighConfidence)
    => /\ invocation.flow = "welcome"
       /\ ~invocation.result.threw
       /\ invocation.sent.type = "interactive_buttons"
       /\ Len(invocation.sent.buttons) = 4
       /\ conversations[invocation.conv].context = [currentFlow |-> "welcome"]

C26_Witness ==
    /\ InTurn("returned")
    /\ invocation.prior = <<>>
    /\ invocation.message = <<"hello">>
    /\ invocation.nlpResult.intent = "greeting"
    /\ invocation.nlpResult.confidence > HighConfidence
    /\ invocation.flow = "welcome"
    /\ Len(conversations) = 1

\* the message as the rules of generateAutoResponse see it
Seen(messageBody) == Trim(ToLowerCase(messageBody))

\* the reply to the message that is exactly this word
ReplyTo(word, reply) ==
    Seen(invocation.messageBody) = <<word>> => invocation.result.text = reply

CategoryOf(message) ==
    IF message = <<"category_phones">> THEN "phones" ELSE Null

\* the handler of the turn has been called
TurnHandled(flow) ==
    /\ invocation.fn = "processMessage"
    /\ invocation.pc \in {"ctx", "catch", "logOut", "returned"}
    /\ invocation.flow = flow

\* C29: when the Session is in browse_catalog after the categories were
\* listed and the next message is the id of a category, the browse handler
\* answers with the products of that category or with the text that the
\* category has none.
C29_CategorySelectionShowsProducts ==
    (/\ TurnHandled("browse_catalog")
     /\ invocation.context = [currentFlow |-> "browse_catalog"]
     /\ CategoryOf(invocation.message) # Null)
    => /\ ~invocation.result.threw
       /\ LET response == invocation.result.response
              category == CategoryOf(invocation.message)
          IN \/ /\ response.type = "interactive_list"
                /\ response.sections[1].title = category
                /\ response.sections[1].rows =
                       ProductRows(invocation.catalog.getProductsByCategory)
             \/ /\ response.type = "text"
                /\ response.text = <<"Sorry, no products found in", category>>

\* C30: the search handler always returns a response with a text, never a
\* list or buttons without items; a query of fewer than 2 characters gets
\* the prompt and the catalog is not searched; no match gets the not-found
\* text with recommendation buttons and currentFlow = product_details, or
\* with currentFlow = welcome.
C30_SearchAlwaysAnswers ==
    TurnHandled("product_search")
    => /\ ~invocation.result.threw
       /\ LET response == invocation.result.response
              searchQuery == SearchQuery(invocation.nlpResult, invocation.message)
          IN /\ Len(response.text) > 0
             /\ response.type = "interactive_buttons" => Len(response.buttons) > 0
             /\ response.type = "interactive_list"
                   => Len(response.sections) > 0 /\ Len(response.sections[1].rows) > 0
             /\ Length(searchQuery) < 2
                   => /\ response.type = "text"
                      /\ response.context = [currentFlow |-> "product_search"]
                      /\ invocation.result.calls = <<>>
             /\ (Length(searchQuery) >= 2 /\ invocation.catalog.searchProducts = <<>>)
                   => /\ response.text[1] = "Sorry, I couldn't find any products matching"
                      /\ \/ /\ response.type = "interactive_buttons"
                            /\ response.context = [currentFlow |-> "product_details"]
                         \/ /\ response.type = "text"
                            /\ response.context = [currentFlow |-> "welcome"]

\* the product the details handler was asked for: the id in the message,
\* else the one the context holds, else none
AskedProduct ==
    IF StartsWithProduct(invocation.message)
    THEN ReplaceProduct(invocation.message)
    ELSE IF invocation.context # UndefinedObject
            /\ Truthy(Get(invocation.context, "selectedProduct"))
         THEN invocation.context.selectedProduct
         ELSE Null

\* C31: the product_details handler never raises: when the message is not
\* a 'product_' selection and the context holds no selectedProduct, or when
\* the catalog has no product with the id asked for, it returns a text
\* response whose context sets currentFlow = 'browse_catalog'.
C31_DetailsDegradeToBrowse ==
    TurnHandled("product_details")
    => /\ ~invocation.result.threw
       /\ (\/ ~Truthy(AskedProduct)
           \/ ProductsWithId(invocation.catalog, AskedProduct) = {})
          => /\ invocation.result.response.type = "text"
             /\ invocation.result.response.context = [currentFlow |-> "browse_catalog"]

\* a turn of the dialogue has ended
TurnEnded ==
    /\ invocation.fn = "dialogue" /\ invocation.pc = "idle"
    /\ invocation.nlpResult # NoValue

\* C32: every response a flow handler returns carries a context whose
\* currentFlow is one of the eight keys of the dispatch table; so the
\* context of the Session has no currentFlow or one that names a registered
\* handler, and the flow that processMessage dispatches on is always a key
\* of the table.
C32_FlowIsRegistered ==
    invocation.fn = "dialogue" =>
        /\ Get(invocation.stored, "currentFlow") \in Flows \cup {Undefined}
        /\ (TurnEnded /\ invocation.flow # Undefined) => invocation.flow \in Flows
        /\ (TurnEnded /\ ~invocation.result.threw)
              => /\ "context" \in DOMAIN invocation.result.response
                 /\ Get(invocation.result.response.context, "currentFlow") \in Flows

\* a turn continued the flow the Session was left in, product_details, and
\* its handler sent the customer back to browse_catalog
C32_Witness ==
    /\ TurnEnded
    /\ invocation.nlpResult.confidence = 60
    /\ invocation.context = [currentFlow |-> "product_details"]
    /\ invocation.flow = "product_details"
    /\ ~invocation.result.threw
    /\ invocation.stored = [currentFlow |-> "browse_catalog"]

\* the flow that an intent of the classifier's vocabulary stands for
FlowOfIntent(intent) ==
    CASE intent = "greeting" -> "welcome"
      [] intent = "product_search" -> "product_search"
      [] intent = "browse_catalog" -> "browse_catalog"
      [] intent = "product_details" -> "product_details"
      [] intent = "get_recommendations" -> "recommendations"
      [] intent = "faq" -> "faq"
      [] intent = "contact_support" -> "support"
      [] intent = "fallback" -> "fallback"

\* C33: every intent the primary classifier is told to return, when it
\* comes with a confidence above 0.7, is mapped by determineFlow to its own
\* flow, and only the intent 'fallback' is mapped to the fallback flow.
C33_VocabularyIsDispatched ==
    (/\ Returned("determineFlow")
     /\ invocation.nlpResult.intent \in GeminiIntents
     /\ invocation.nlpResult.confidence > HighConfidence)
    => /\ invocation.flow = FlowOfIntent(invocation.nlpResult.intent)
       /\ invocation.flow = "fallback" <=> invocation.nlpResult.intent = "fallback"

\* the count of every Session is the length of its log
CountIsLength ==
    \A c \in 1..Len(conversations) :
        conversations[c].messageCount = Len(conversations[c].messages)

\* a step leaves every record of every log where and as it was
LogsAreAppended ==
    /\ Len(conversations) <= Len(conversations')
    /\ \A c \in 1..Len(conversations) :
          IsPrefix(conversations[c].messages, conversations'[c].messages)

\* C34: in every reachable state, also after jobs that ran at once on the
\* same Session, after failed attempts and after retries, the messageCount
\* of a Session is the number of records of its messages log, and the log
\* only grows by appends.
C34_CountMatchesLog == []CountIsLength /\ [][LogsAreAppended]_vars

\* two jobs logged on the same Session, one of them in a retry
C34_Witness ==
    /\ Len(conversations) = 1
    /\ conversations[1].messageCount >= 4
    /\ jobs[1].attemptsMade = 2 /\ jobs[1].state = "active"
    /\ jobs[2].state = "active"

\* the texts of the outgoing records of the Session of a handler call
OutgoingRecords(j) ==
    IF run[j].conv = 0 THEN {}
    ELSE LET log == conversations[run[j].conv].messages
         IN {log[i].content : i \in {k \in 1..Len(log) : log[k].direction = "outgoing"}}

\* the texts the transport adapter accepted in a handler call
DeliveredTexts(j) ==
    {run[j].wire[i].text : i \in {k \in 1..Len(run[j].wire) : run[j].wire[k].ok}}

\* C35: the message log agrees with what the customer was sent: when the
\* first attempt of the first message of a Session has ended, every
\* outgoing record is a text the transport adapter accepted, and every text
\* it accepted (the apology and the plain-text resend too) has an outgoing
\* record.
C35_LogAgreesWithTransport ==
    \A j \in JobIds :
        (/\ Active(j) /\ run[j].pc \in {"returned", "thrown"}
         /\ jobs[j].attemptsMade = 0)
        => OutgoingRecords(j) = DeliveredTexts(j)

\* C36: whenever processMessage is on its error path, where the customer
\* is sent the apology and not the flow response, the context of the
\* Session is the one it had before the message was processed.
C36_ErrorPathKeepsContext ==
    \A j \in JobIds :
        (Active(j) /\ run[j].phase = "catch" /\ run[j].conv # 0)
        => conversations[run[j].conv].context = run[j].context

\* the attempt of a job has ended: processQueuedMessage returned or threw
AttemptEnded(j) == Active(j) /\ run[j].pc \in {"returned", "thrown"}

\* C37: in every attempt of a process_message job message_received is
\* tracked first and then exactly one of message_sent and message_error:
\* message_sent only when the flow response was produced and delivered,
\* message_error whenever the processing failed, with the customer left
\* with the apology or with nothing.
C37_EventsTellTheOutcome ==
    \A j \in JobIds :
        AttemptEnded(j)
        => /\ Len(run[j].events) = 2
           /\ run[j].events[1] = "message_received"
           /\ run[j].events[2] \in {"message_sent", "message_error"}
           /\ run[j].events[2] = "message_sent"
                 => /\ run[j].phase = "try"
                    /\ \E i \in 1..Len(run[j].wire) : run[j].wire[i].ok
           /\ run[j].phase = "catch" => run[j].events[2] = "message_error"

\* the Customer records of a phone number
RecordsOf(phoneNumber) ==
    {i \in 1..Len(customers) : customers[i] = phoneNumber}

\* C38: when two messages of a customer who has no Customer record are
\* processed at once, every interleaving of the two getOrCreateCustomer
\* calls leaves exactly one record of the phone number, and neither message
\* ends on the error path: both are answered by their flow response.
C38_FirstContactRaceIsHarmless ==
    \A j \in JobIds :
        Active(j)
        => /\ Cardinality(RecordsOf(CustomerOf(j))) <= 1
           /\ run[j].pc \notin {"idle", "received", "custFind", "custSave"}
                 => Cardinality(RecordsOf(CustomerOf(j))) = 1
           /\ run[j].phase = "try"

\* the messages of the event that have content
WithContent ==
    {k \in 1..Len(invocation.messages) : ~IsEmptyMessage(invocation.messages[k])}

\* C39: when a webhook event carries several messages they are processed
\* one after another in the order of the list, and a failure while one is
\* processed, the failed delivery of the apology included, does not keep
\* the messages after it from being processed.
C39_EveryMessageOfTheEventIsProcessed ==
    invocation.fn = "processMessageEvent" =>
        /\ \A i \in 1..Len(invocation.handled) : \A l \in 1..Len(invocation.handled) :
              i < l => invocation.handled[i].index < invocation.handled[l].index
        /\ invocation.pc = "ended"
              => {invocation.handled[i].index : i \in 1..Len(invocation.handled)}
                    = WithContent

=============================================================================
